---- MODULE Spec2Model ----
(***************************************************************************)
(* Model of the show-slot schedule engine (js/show-engine.js) over its     *)
(* storage layer (js/storage.js), and of the public episodes feed that the *)
(* Worker serves from the stored data (cloudflare/worker.js).              *)
(*                                                                         *)
(* Time.  A JavaScript Date is an instant; the model counts instants in    *)
(* whole hours since 2025-01-01T00:00Z.  A 'YYYY-MM-DD' string is modelled *)
(* by its day number (days since 2025-01-01), so that string equality and  *)
(* string order of ISO dates are equality and order of day numbers.  The   *)
(* conversions between instants and date strings are modelled as the       *)
(* engine performs them: Date.toISOString() reads the UTC calendar day of  *)
(* an instant, new Date('YYYY-MM-DD') is UTC midnight of that day, new     *)
(* Date('YYYY-MM-DDT00:00:00') is midnight in the browser's time zone, and *)
(* setDate / setMonth do calendar arithmetic on the local wall clock.      *)
(* The browser's time zone is an input of the program.                     *)
(***************************************************************************)
EXTENDS Integers, Sequences, FiniteSets, TLC

(***************************************************************************)
(* Bounds of the model.                                                    *)
(***************************************************************************)
\* last day (day number, 343 is 2025-12-10) on which the clock may stand
LastNowDay == 343
\* number of distinct dates offered to setReleaseDate as the new date
MaxOverrideDates == 1

(***************************************************************************)
(* Calendar (years 2025..2027, none of them a leap year).                  *)
(***************************************************************************)
CumDays == <<0, 31, 59, 90, 120, 151, 181, 212, 243, 273, 304, 334, 365>>

\* day number of year y, month m (1..12), day d; d may exceed the month's
\* length, in which case the date carries over as in JavaScript's MakeDay
DayNum(y, m, d) == (y - 2025) * 365 + CumDays[m] + (d - 1)

YearOf(day) == 2025 + (day \div 365)
MonthOf(day) ==
  CHOOSE m \in 1..12 : CumDays[m] <= day % 365 /\ day % 365 < CumDays[m + 1]
DateOf(day) == (day % 365) - CumDays[MonthOf(day)] + 1

(***************************************************************************)
(* Time zones of the browser.  Offsets are in hours east of UTC; the       *)
(* daylight-saving periods are those of the IANA time zone database that   *)
(* fall inside the modelled years.                                         *)
(***************************************************************************)
Zones == {"UTC", "America/Los_Angeles", "Europe/Berlin"}

StdOffset(z) ==
  CASE z = "UTC" -> 0
    [] z = "America/Los_Angeles" -> -8
    [] z = "Europe/Berlin" -> 1

\* daylight-saving periods as <<first instant, first instant after>>
DstPeriods(z) ==
  CASE z = "UTC" -> {}
    [] z = "America/Los_Angeles" ->
         { <<DayNum(2025, 3, 9) * 24 + 10, DayNum(2025, 11, 2) * 24 + 9>>,
           <<DayNum(2026, 3, 8) * 24 + 10, DayNum(2026, 11, 1) * 24 + 9>>,
           <<DayNum(2027, 3, 14) * 24 + 10, DayNum(2027, 11, 7) * 24 + 9>> }
    [] z = "Europe/Berlin" ->
         { <<DayNum(2025, 3, 30) * 24 + 1, DayNum(2025, 10, 26) * 24 + 1>>,
           <<DayNum(2026, 3, 29) * 24 + 1, DayNum(2026, 10, 25) * 24 + 1>>,
           <<DayNum(2027, 3, 28) * 24 + 1, DayNum(2027, 10, 31) * 24 + 1>> }

InDst(z, t) == \E p \in DstPeriods(z) : p[1] <= t /\ t < p[2]

\* offset of the local wall clock from UTC at instant t
Offset(z, t) == IF InDst(z, t) THEN StdOffset(z) + 1 ELSE StdOffset(z)

\* local wall clock (hours since 2025-01-01T00:00 local) of instant t
LocalTime(z, t) == t + Offset(z, t)

\* instant of a local wall-clock time; a skipped or repeated wall-clock
\* time is read with the offset in force before the transition
UTC(z, wall) ==
  IF InDst(z, wall - (StdOffset(z) + 1))
    THEN wall - (StdOffset(z) + 1)
    ELSE wall - StdOffset(z)

(***************************************************************************)
(* The Date operations the engine uses.                                    *)
(***************************************************************************)
\* new Date('YYYY-MM-DDT00:00:00'): local midnight of the day
DateFromLocal(z, day) == UTC(z, day * 24)

\* new Date('YYYY-MM-DD'): UTC midnight of the day
DateFromISO(day) == day * 24

\* d.toISOString().split('T')[0]: the UTC calendar day of the instant
toISODate(t) == t \div 24

\* d.setDate(d.getDate() + n): n days later on the local wall clock
setDatePlus(z, t, n) == UTC(z, LocalTime(z, t) + n * 24)

\* d.setMonth(d.getMonth() + n) for 0 <= n <= 12: same day-of-month and
\* time of day, n months later on the local wall clock
setMonthPlus(z, t, n) ==
  LET wall == LocalTime(z, t)
      day  == wall \div 24
      m    == MonthOf(day) + n
      y    == IF m > 12 THEN YearOf(day) + 1 ELSE YearOf(day)
      mm   == IF m > 12 THEN m - 12 ELSE m
  IN  UTC(z, DayNum(y, mm, DateOf(day)) * 24 + (wall % 24))

(***************************************************************************)
(* Configuration of the engine.                                            *)
(***************************************************************************)
\* FIRST_RECORD_DATE: new Date('2026-01-20T00:00:00')
FIRST_RECORD_DAY == DayNum(2026, 1, 20)
FIRST_RECORD_DATE(z) == DateFromLocal(z, FIRST_RECORD_DAY)
\* LAUNCH_DATE: new Date('2026-03-03T00:00:00')
LAUNCH_DAY == DayNum(2026, 3, 3)
LAUNCH_DATE(z) == DateFromLocal(z, LAUNCH_DAY)
ROLLOUT_EPISODES_PER_WEEK == 2
GENERATE_MONTHS_AHEAD == 3

(***************************************************************************)
(* Inputs of the model.                                                    *)
(***************************************************************************)
\* first day (2025-11-20) and hours of the day (UTC) at which the clock
\* may stand
FirstNowDay == DayNum(2025, 11, 20)
NowHours == {3, 20}
NowSet == { d * 24 + h : d \in FirstNowDay..LastNowDay, h \in NowHours }

\* the empty string, the one falsy value a date input can deliver
EMPTY == -1
OverrideDates == { LAUNCH_DAY + 35 * (i - 1) : i \in 1..MaxOverrideDates }
DateInputs == OverrideDates \cup {EMPTY}

\* dates asked of getSlotsByReleaseDate: the days around the launch date
QueryDates == (LAUNCH_DAY - 1)..(LAUNCH_DAY + 8)

\* slot ids offered to setReleaseDate / resetReleaseDate; each is unknown
\* to the store until generation has reached it
SlotIdInputs == { <<"slot_", 1>>, <<"slot_", 7>> }

\* the smaller set of inputs under which the API-backed store is explored:
\* one time zone, four readings of the clock (2025-12-02T20:00Z,
\* 2025-12-03T00:00Z, at which the target date is the UTC midnight of a
\* record date, 2025-12-03T03:00Z and 2025-12-10T03:00Z), one slot id, one
\* date
ApiZones == {"America/Los_Angeles"}
ApiNowSet == { DayNum(2025, 12, 2) * 24 + 20, DayNum(2025, 12, 3) * 24,
               DayNum(2025, 12, 3) * 24 + 3, DayNum(2025, 12, 10) * 24 + 3 }
ApiSlotIdInputs == { <<"slot_", 7>> }
ApiDateInputs == { LAUNCH_DAY + 35 }

(***************************************************************************)
(* State.                                                                  *)
(***************************************************************************)
VARIABLES
  tz,               \* time zone of the browser
  now,              \* the clock: what new Date() returns
  useLocalFallback, \* Storage._useLocalFallback
  localStorage,     \* localStorage: key -> JSON text
  cache,            \* Storage._cache: key -> value
  syncing,          \* Storage._syncing: key -> [dirty, value]
  inflight,         \* PUT requests in flight: key -> their bodies (JSON
                    \* texts) in the order they were sent
  remote,           \* the Worker's KV store: key -> JSON text
  call              \* the engine call made by the last step, if it was one:
                    \* [op, id, date, found, ret, saved, repeated], where
                    \* found is what slots.find returned before the call
                    \* changed it and ret is what the call returned (a
                    \* collection, a slot as <<slot>>, null or undefined as
                    \* <<>>), saved lists the arguments of saveShowSlots and
                    \* repeated tells an ensureSlots call that follows an
                    \* ensureSlots call immediately

VARIABLE
  browserPage       \* the page in the browser: the two placeholders of
                    \* the deployment (expectedHash, apiUrl), the session
                    \* in sessionStorage, the display of the gate, of the
                    \* protected content and of the loading overlay, how
                    \* far loading has come (pc), whether onStorageReady
                    \* has run and the error shown as a toast

VARIABLE
  peer              \* a second browser client of the same remote store:
                    \* its cache, _syncing and PUT requests in flight

storeVars == <<useLocalFallback, localStorage, cache, syncing, inflight, remote>>
vars == <<tz, now, storeVars, call, browserPage, peer>>

(***************************************************************************)
(* JSON text: JSON.stringify(v) and JSON.parse(text).                      *)
(***************************************************************************)
JSONstringify(v) == <<"json", v>>
JSONparse(text) == text[2]

\* texts that are not the JSON of a collection: the text null, which parses
\* to null, and a JSON text cut short, on which JSON.parse throws
NullText == <<"null", <<>>>>
TruncatedText(v) == <<"truncated", v>>

\* JSON.parse(text) gives a value other than null
ParsesToValue(text) == text[1] = "json"

(***************************************************************************)
(* Storage (js/storage.js).                                                *)
(***************************************************************************)
\* the keys of the store
DATA_KEYS == {"config", "ideas", "jokes", "showSlots", "assignments"}

\* a function with one more (or one replaced) entry: obj[key] = value
Put(obj, key, value) ==
  [k \in DOMAIN obj \cup {key} |-> IF k = key THEN value ELSE obj[k]]

\* Delete leaving the entry in place
Delete_noop(obj, key) == obj

\* a function without the entry: delete obj[key]
Delete(obj, key) == [k \in DOMAIN obj \ {key} |-> obj[k]]

\* getShowSlots reading what the remote store holds instead of the cache
getShowSlots_remote ==
  IF useLocalFallback
    THEN IF "showSlots" \in DOMAIN localStorage
           THEN JSONparse(localStorage["showSlots"])
           ELSE <<>>
    ELSE IF "showSlots" \in DOMAIN remote
           THEN JSONparse(remote["showSlots"])
           ELSE <<>>

\* getShowSlots taking the stored text for a collection whether or not it
\* parses
getShowSlots_lenient ==
  IF useLocalFallback
    THEN IF "showSlots" \in DOMAIN localStorage
           THEN JSONparse(localStorage["showSlots"])
           ELSE <<>>
    ELSE IF "showSlots" \in DOMAIN cache THEN cache["showSlots"] ELSE <<>>

\* Storage.getShowSlots(): get('showSlots') || [], where get answers null
\* for an absent key, for the text null and for a text that does not parse
getShowSlots ==
  IF useLocalFallback
    THEN IF "showSlots" \in DOMAIN localStorage
              /\ ParsesToValue(localStorage["showSlots"])
           THEN JSONparse(localStorage["showSlots"])
           ELSE <<>>
    ELSE IF "showSlots" \in DOMAIN cache THEN cache["showSlots"] ELSE <<>>

\* pushSyncing keeping the value of the first write that arrived while the
\* key was being saved
pushSyncing_keepsFirst(key, value) ==
  IF key \in DOMAIN syncing
    THEN Put(syncing, key, [dirty |-> TRUE,
                            value |-> IF syncing[key].dirty
                                        THEN syncing[key].value ELSE value])
    ELSE Put(syncing, key, [dirty |-> FALSE, value |-> value])

\* Storage._pushToApi(key, value): the new _syncing and requests in flight
pushSyncing(key, value) ==
  IF key \in DOMAIN syncing
    THEN Put(syncing, key, [dirty |-> TRUE, value |-> value])
    ELSE Put(syncing, key, [dirty |-> FALSE, value |-> value])

\* the requests in flight after one more PUT /data/:key with this body
sendPut(requests, key, body) ==
  Put(requests, key,
      IF key \in DOMAIN requests THEN Append(requests[key], body)
                                 ELSE <<body>>)

\* _pushToApi sending a PUT whether or not one is pending for the key
pushInflight_always(key, value) ==
  sendPut(inflight, key, JSONstringify(value))

pushInflight(key, value) ==
  IF key \in DOMAIN syncing
    THEN inflight
    ELSE sendPut(inflight, key, JSONstringify(value))

\* Storage.set(key, value), as a relation on the storage state
set(key, value) ==
  IF useLocalFallback
    THEN /\ localStorage' = Put(localStorage, key, JSONstringify(value))
         /\ UNCHANGED <<useLocalFallback, cache, syncing, inflight, remote>>
    ELSE /\ cache' = Put(cache, key, value)
         /\ syncing' = pushSyncing(key, value)
         /\ inflight' = pushInflight(key, value)
         /\ UNCHANGED <<useLocalFallback, localStorage, remote>>

\* Storage.saveShowSlots(slots)
saveShowSlots(slots) == set("showSlots", slots)

\* what Storage.set(key, value) returns: true on either path, before any
\* request has settled
setReturns(key, value) == TRUE

\* what Storage.saveShowSlots(slots) returns
saveShowSlotsReturns(slots) == setReturns("showSlots", slots)

\* the storage state as one value, for the operations that read and write
\* the store more than once
store == [localStorage |-> localStorage, cache |-> cache,
          syncing |-> syncing, inflight |-> inflight]

\* Storage.set(key, value) applied to the storage state st
setIn(st, key, value) ==
  IF useLocalFallback
    THEN [st EXCEPT !.localStorage = Put(@, key, JSONstringify(value))]
    ELSE [st EXCEPT
            !.cache = Put(@, key, value),
            !.syncing = IF key \in DOMAIN st.syncing
                          THEN Put(@, key, [dirty |-> TRUE, value |-> value])
                          ELSE Put(@, key, [dirty |-> FALSE, value |-> value]),
            !.inflight = IF key \in DOMAIN st.syncing
                           THEN @
                           ELSE sendPut(@, key, JSONstringify(value))]

\* the storage state after the operation is st
storeBecomes(st) ==
  /\ localStorage' = st.localStorage
  /\ cache' = st.cache
  /\ syncing' = st.syncing
  /\ inflight' = st.inflight
  /\ UNCHANGED <<useLocalFallback, remote>>

\* Storage.get(key) || dflt read from the storage state st
getIn(st, key, dflt) ==
  IF useLocalFallback
    THEN IF key \in DOMAIN st.localStorage
              /\ ParsesToValue(st.localStorage[key])
           THEN JSONparse(st.localStorage[key])
           ELSE dflt
    ELSE IF key \in DOMAIN st.cache THEN st.cache[key] ELSE dflt

\* Storage.getIdeas(): get('ideas') || []
getIdeas == getIn(store, "ideas", <<>>)

\* Storage.getAssignments(): get('assignments') || {}
getAssignments == getIn(store, "assignments", <<>>)

\* Object.assign(target, updates)
ObjectAssign(target, updates) ==
  [k \in DOMAIN target \cup DOMAIN updates |->
     IF k \in DOMAIN updates THEN updates[k] ELSE target[k]]

\* ideas.findIndex(i => i.id === ideaId), counted from 1, 0 for none
findIdeaIndex(ideas, ideaId) ==
  IF \E i \in 1..Len(ideas) : ideas[i].id = ideaId
    THEN CHOOSE i \in 1..Len(ideas) :
           /\ ideas[i].id = ideaId
           /\ \A j \in 1..(i - 1) : ideas[j].id # ideaId
    ELSE 0

\* Storage.updateIdea(ideaId, updates) applied to the storage state st
updateIdeaIn(st, ideaId, updates) ==
  LET ideas == getIn(st, "ideas", <<>>)
      idx == findIdeaIndex(ideas, ideaId)
  IN  IF idx = 0
        THEN st
        ELSE setIn(st, "ideas",
                   [ideas EXCEPT ![idx] = ObjectAssign(@, updates)])

\* the loop of assignIdeaToSlot leaving the idea's earlier slot in place
withoutIdea_kept(assignments, ideaId) == assignments

\* for (sid in assignments) if (assignments[sid] === ideaId) delete ...
withoutIdea(assignments, ideaId) ==
  [sid \in { s \in DOMAIN assignments : assignments[s] # ideaId } |->
     assignments[sid]]

(***************************************************************************)
(* Show engine (js/show-engine.js).                                        *)
(***************************************************************************)
RECURSIVE Digits(_)
Digits(n) == IF n < 10 THEN <<n>> ELSE Append(Digits(n \div 10), n % 10)

\* String(num).padStart(3, '0')
padStart3(ds) ==
  IF Len(ds) >= 3 THEN ds
  ELSE [i \in 1..3 |-> IF i <= 3 - Len(ds) THEN 0 ELSE ds[i - (3 - Len(ds))]]

_formatEpNumber(num) == <<"EP">> \o padStart3(Digits(num))

_calculateReleaseDate(z, recordDate, epNum) ==
  LET normalRelease == setDatePlus(z, recordDate, 7)
      weekOffset == (epNum - 1) \div ROLLOUT_EPISODES_PER_WEEK
  IN  IF normalRelease > LAUNCH_DATE(z)
        THEN normalRelease
        ELSE setDatePlus(z, LAUNCH_DATE(z), weekOffset * 7)

\* _isRolloutEpisode with the comparison reversed
_isRolloutEpisode_reversed(z, recordDate) ==
  setDatePlus(z, recordDate, 7) >= LAUNCH_DATE(z)

_isRolloutEpisode(z, recordDate) ==
  setDatePlus(z, recordDate, 7) <= LAUNCH_DATE(z)

RECURSIVE _generateSlots(_, _, _, _)
_generateSlots(z, current, endDate, epNum) ==
  IF current <= endDate
    THEN <<[id |-> <<"slot_", epNum>>,
            episodeNumber |-> _formatEpNumber(epNum),
            episodeNum |-> epNum,
            recordDate |-> toISODate(current),
            releaseDate |-> toISODate(_calculateReleaseDate(z, current, epNum)),
            isRollout |-> _isRolloutEpisode(z, current)]>>
         \o _generateSlots(z, setDatePlus(z, current, 7), endDate, epNum + 1)
    ELSE <<>>

_getTargetDate(z, t) == setMonthPlus(z, t, GENERATE_MONTHS_AHEAD)

\* ensureSlotsResult with the save of an extension forgotten
ensureSlotsResult_extensionNotSaved(z, t, slots) ==
  LET target == _getTargetDate(z, t) IN
  IF Len(slots) = 0
    THEN [slots |-> _generateSlots(z, FIRST_RECORD_DATE(z), target, 1),
          save |-> TRUE]
    ELSE LET lastRecordDate == DateFromISO(slots[Len(slots)].recordDate) IN
         IF lastRecordDate < target
           THEN [slots |-> slots \o _generateSlots(z,
                              setDatePlus(z, lastRecordDate, 7), target,
                              Len(slots) + 1),
                 save |-> FALSE]
           ELSE [slots |-> slots, save |-> FALSE]

\* the collection ensureSlots() computes from the stored one, and whether
\* it saves it
ensureSlotsResult(z, t, slots) ==
  LET target == _getTargetDate(z, t) IN
  IF Len(slots) = 0
    THEN [slots |-> _generateSlots(z, FIRST_RECORD_DATE(z), target, 1),
          save |-> TRUE]
    ELSE LET lastRecordDate == DateFromISO(slots[Len(slots)].recordDate) IN
         IF lastRecordDate < target
           THEN [slots |-> slots \o _generateSlots(z,
                              setDatePlus(z, lastRecordDate, 7), target,
                              Len(slots) + 1),
                 save |-> TRUE]
           ELSE [slots |-> slots, save |-> FALSE]

\* findById falling back to the last slot when none matches
findById_orLast(slots, slotId) ==
  IF \E i \in 1..Len(slots) : slots[i].id = slotId
    THEN CHOOSE i \in 1..Len(slots) :
           /\ slots[i].id = slotId
           /\ \A j \in 1..(i - 1) : slots[j].id # slotId
    ELSE Len(slots)

\* slots.find(s => s.id === slotId): index of the first match, 0 if none
findById(slots, slotId) ==
  IF \E i \in 1..Len(slots) : slots[i].id = slotId
    THEN CHOOSE i \in 1..Len(slots) :
           /\ slots[i].id = slotId
           /\ \A j \in 1..(i - 1) : slots[j].id # slotId
    ELSE 0

\* getEffectiveReleaseDate reading the computed date only
getEffectiveReleaseDate_computedOnly(slot) == slot.releaseDate

getEffectiveReleaseDate(slot) ==
  IF "releaseDateOverride" \in DOMAIN slot /\ slot.releaseDateOverride # EMPTY
    THEN slot.releaseDateOverride
    ELSE slot.releaseDate

\* getSlotsByReleaseDate matching the effective release date
getSlotsByReleaseDate_effective(dateStr) ==
  SelectSeq(getShowSlots, LAMBDA s : getEffectiveReleaseDate(s) = dateStr)

\* ShowEngine.getSlotsByReleaseDate(dateStr)
getSlotsByReleaseDate(dateStr) ==
  SelectSeq(getShowSlots, LAMBDA s : s.releaseDate = dateStr)

\* ShowEngine.getSlotByRecordDate(dateStr): the slot as <<slot>>, null as
\* <<>>
getSlotByRecordDate(dateStr) ==
  LET slots == getShowSlots IN
  IF \E i \in 1..Len(slots) : slots[i].recordDate = dateStr
    THEN <<slots[CHOOSE i \in 1..Len(slots) :
                   /\ slots[i].recordDate = dateStr
                   /\ \A j \in 1..(i - 1) : slots[j].recordDate # dateStr]>>
    ELSE <<>>

\* getSlotById answering with the first slot when none matches
getSlotById_orFirst(slotId) ==
  LET slots == getShowSlots
      i == findById(slots, slotId)
  IN  IF i = 0
        THEN IF Len(slots) > 0 THEN <<slots[1]>> ELSE <<>>
        ELSE <<slots[i]>>

\* ShowEngine.getSlotById(slotId): the slot as <<slot>>, null as <<>>
getSlotById(slotId) ==
  LET slots == getShowSlots
      i == findById(slots, slotId)
  IN  IF i = 0 THEN <<>> ELSE <<slots[i]>>

\* SHA-256 of a password as _hashPassword computes it
sha256(password) == <<"sha256", password>>

\* the placeholders that the deployment replaces
PASSWORD_HASH_PLACEHOLDER == <<"text", "__PASSWORD_HASH__">>
API_URL_PLACEHOLDER == "__API_URL__"
API_URL == "https://api.example"

\* the password of the administrator, which is also env.ADMIN_PASSWORD of
\* the Worker
ADMIN_PASSWORD == "admin-password"

\* a page that has loaded in a signed-in browser: the gate passed, the
\* storage initialised and onStorageReady run
LoadedPage(fallback) ==
  [expectedHash |-> sha256(ADMIN_PASSWORD),
   apiUrl |-> IF fallback THEN API_URL_PLACEHOLDER ELSE API_URL,
   session |-> <<[hash |-> sha256(ADMIN_PASSWORD),
                  password |-> ADMIN_PASSWORD, ts |-> 0]>>,
   gate |-> "none", content |-> "block", loading |-> "none",
   pc |-> "ready", onStorageReadyRan |-> TRUE, toast |-> ""]

\* no second client
NoPeer == [localStorage |-> <<>>, cache |-> <<>>, syncing |-> <<>>,
           inflight |-> <<>>]

NoId == <<>>
NoDate == 0
NoCall == [op |-> "none", id |-> NoId, date |-> NoDate, found |-> <<>>,
           ret |-> <<>>, saved |-> <<>>, repeated |-> FALSE]

(***************************************************************************)
(* Actions.                                                                *)
(***************************************************************************)
\* the state after Storage.init() with no API URL configured: every read
\* and write goes to localStorage, the cache is never read
Init ==
  /\ tz \in Zones
  /\ now \in NowSet
  /\ useLocalFallback = TRUE
  /\ localStorage = <<>>
  /\ cache = <<>>
  /\ syncing = <<>>
  /\ inflight = <<>>
  /\ remote = <<>>
  /\ call = NoCall
  /\ browserPage = LoadedPage(useLocalFallback)
  /\ peer = NoPeer

\* time passes: the clock moves on to its next reading among S
TickIn(S) ==
  /\ \E t \in S :
       /\ t > now
       /\ \A u \in S : u > now => t <= u
       /\ now' = t
  /\ call' = NoCall
  /\ UNCHANGED <<peer, browserPage, tz, storeVars>>

Tick == TickIn(NowSet)

\* the stored text that get('showSlots') met and answered null for, <<>>
\* when there was none
unparsedShowSlots ==
  IF useLocalFallback /\ "showSlots" \in DOMAIN localStorage
       /\ ~ParsesToValue(localStorage["showSlots"])
    THEN <<localStorage["showSlots"]>>
    ELSE <<>>

\* ShowEngine.ensureSlots(); the call records the slots returned, the
\* collection saved and a stored text that did not parse
ensureSlots ==
  LET r == ensureSlotsResult(tz, now, getShowSlots) IN
  /\ IF r.save
       THEN saveShowSlots(r.slots)
       ELSE UNCHANGED storeVars
  /\ call' = [op |-> "ensureSlots", id |-> NoId, date |-> NoDate,
              found |-> unparsedShowSlots, ret |-> r.slots,
              saved |-> IF r.save THEN <<r.slots>> ELSE <<>>,
              repeated |-> (call.op = "ensureSlots")]
  /\ UNCHANGED <<peer, browserPage, tz, now>>

\* setReleaseDateOf writing the new date over the computed releaseDate
setReleaseDateOf_computed(ids, dates) ==
  \E slotId \in ids, newDate \in dates :
    LET slots == getShowSlots
        i == findById(slots, slotId)
    IN  /\ IF i = 0
             THEN /\ call' = [op |-> "setReleaseDate", id |-> slotId,
                              date |-> newDate, found |-> <<>>,
                              ret |-> <<>>, saved |-> <<>>,
                              repeated |-> FALSE]
                  /\ UNCHANGED storeVars
             ELSE LET slot == Put(slots[i], "releaseDate", newDate)
                      after == [slots EXCEPT ![i] = slot]
                  IN  /\ saveShowSlots(after)
                      /\ call' = [op |-> "setReleaseDate", id |-> slotId,
                                  date |-> newDate, found |-> <<slots[i]>>,
                                  ret |-> <<slot>>, saved |-> <<after>>,
                                  repeated |-> FALSE]
        /\ UNCHANGED <<peer, browserPage, tz, now>>

\* ShowEngine.setReleaseDate(slotId, newDate), inputs drawn from ids, dates
setReleaseDateOf(ids, dates) ==
  \E slotId \in ids, newDate \in dates :
    LET slots == getShowSlots
        i == findById(slots, slotId)
    IN  /\ IF i = 0
             THEN /\ call' = [op |-> "setReleaseDate", id |-> slotId,
                              date |-> newDate, found |-> <<>>,
                              ret |-> <<>>, saved |-> <<>>,
                              repeated |-> FALSE]
                  /\ UNCHANGED storeVars
             ELSE LET slot == Put(slots[i], "releaseDateOverride", newDate)
                      after == [slots EXCEPT ![i] = slot]
                  IN  /\ saveShowSlots(after)
                      /\ call' = [op |-> "setReleaseDate", id |-> slotId,
                                  date |-> newDate, found |-> <<slots[i]>>,
                                  ret |-> <<slot>>, saved |-> <<after>>,
                                  repeated |-> FALSE]
        /\ UNCHANGED <<peer, browserPage, tz, now>>

setReleaseDate == setReleaseDateOf(SlotIdInputs, DateInputs)

\* ShowEngine.resetReleaseDate(slotId), input drawn from ids
resetReleaseDateOf(ids) ==
  \E slotId \in ids :
    LET slots == getShowSlots
        i == findById(slots, slotId)
    IN  /\ IF i = 0
             THEN /\ call' = [op |-> "resetReleaseDate", id |-> slotId,
                              date |-> NoDate, found |-> <<>>,
                              ret |-> <<>>, saved |-> <<>>,
                              repeated |-> FALSE]
                  /\ UNCHANGED storeVars
             ELSE LET slot == Delete(slots[i], "releaseDateOverride")
                      after == [slots EXCEPT ![i] = slot]
                  IN  /\ saveShowSlots(after)
                      /\ call' = [op |-> "resetReleaseDate", id |-> slotId,
                                  date |-> NoDate, found |-> <<slots[i]>>,
                                  ret |-> <<slot>>, saved |-> <<after>>,
                                  repeated |-> FALSE]
        /\ UNCHANGED <<peer, browserPage, tz, now>>

resetReleaseDate == resetReleaseDateOf(SlotIdInputs)

\* a PUT /data/:key in flight settles: on success the Worker has stored
\* the body under the key, on failure it has not; either way the .finally
\* handler of _pushToApi runs and, if the key is dirty, pushes again
\* putSettleOf forgetting the value that was set while the PUT was pending
putSettleOf_forgetsDirty(key, i, ok) ==
  LET body == inflight[key][i]
      others == SubSeq(inflight[key], 1, i - 1)
                  \o SubSeq(inflight[key], i + 1, Len(inflight[key]))
      left == IF others = <<>> THEN Delete(inflight, key)
                               ELSE Put(inflight, key, others)
  IN  /\ remote' = IF ok THEN Put(remote, key, JSONstringify(JSONparse(body)))
                         ELSE remote
      /\ syncing' = Delete(syncing, key)
      /\ inflight' = left
      /\ call' = NoCall
      /\ UNCHANGED <<peer, browserPage, tz, now, useLocalFallback, localStorage, cache>>

putSettleOf(key, i, ok) ==
  LET body == inflight[key][i]
      others == SubSeq(inflight[key], 1, i - 1)
                  \o SubSeq(inflight[key], i + 1, Len(inflight[key]))
      left == IF others = <<>> THEN Delete(inflight, key)
                               ELSE Put(inflight, key, others)
  IN  /\ remote' = IF ok THEN Put(remote, key, JSONstringify(JSONparse(body)))
                         ELSE remote
      /\ IF key \in DOMAIN syncing /\ syncing[key].dirty
           THEN /\ syncing' = Put(syncing, key,
                                  [dirty |-> FALSE, value |-> syncing[key].value])
                /\ inflight' = sendPut(left, key,
                                       JSONstringify(syncing[key].value))
           ELSE /\ syncing' = Delete(syncing, key)
                /\ inflight' = left
      /\ call' = NoCall
      /\ UNCHANGED <<peer, browserPage, tz, now, useLocalFallback, localStorage, cache>>

putSettle ==
  \E key \in DOMAIN inflight, ok \in BOOLEAN :
    \E i \in 1..Len(inflight[key]) : putSettleOf(key, i, ok)

Next ==
  \/ Tick
  \/ ensureSlots
  \/ setReleaseDate
  \/ resetReleaseDate

\* the engine over the localStorage fallback of the store
Spec == Init /\ [][Next]_vars

\* the engine over the API-backed store (cache, background PUT)
InitApi ==
  /\ tz \in ApiZones
  /\ now \in ApiNowSet
  /\ useLocalFallback = FALSE
  /\ localStorage = <<>>
  /\ cache = [showSlots |-> <<>>]
  /\ syncing = <<>>
  /\ inflight = <<>>
  /\ remote = <<>>
  /\ call = NoCall
  /\ browserPage = LoadedPage(useLocalFallback)
  /\ peer = NoPeer

TickApi == TickIn(ApiNowSet)
setReleaseDateApi == setReleaseDateOf(ApiSlotIdInputs, ApiDateInputs)
resetReleaseDateApi == resetReleaseDateOf(ApiSlotIdInputs)

NextApi ==
  \/ TickApi
  \/ ensureSlots
  \/ setReleaseDateApi
  \/ resetReleaseDateApi
  \/ putSettle

SpecApi == InitApi /\ [][NextApi]_vars

\* Storage.set(key, value) called by a page for a key and a value of its own
setOf(keys, values) ==
  \E key \in keys, value \in values :
    /\ set(key, value)
    /\ call' = [NoCall EXCEPT !.op = "set", !.id = <<key>>, !.saved = <<value>>,
                              !.ret = <<setReturns(key, value)>>]
    /\ UNCHANGED <<peer, browserPage, tz, now>>

\* two keys and three values
SyncKeys == {"ideas", "jokes"}
SyncValues == { <<>>, <<[id |-> "a"]>>, <<[id |-> "a"], [id |-> "b"]>> }

\* the API-backed store after Storage.init() over an empty remote store
InitSync ==
  /\ tz = "UTC"
  /\ now = DayNum(2025, 12, 2) * 24 + 20
  /\ useLocalFallback = FALSE
  /\ localStorage = <<>>
  /\ cache = [key \in DATA_KEYS \ {"config"} |-> <<>>]
  /\ syncing = <<>>
  /\ inflight = <<>>
  /\ remote = <<>>
  /\ call = NoCall
  /\ browserPage = LoadedPage(useLocalFallback)
  /\ peer = NoPeer

setSync == setOf(SyncKeys, SyncValues)

NextSync ==
  \/ setSync
  \/ putSettle

\* writes of two keys over the API-backed store
SpecSync == InitSync /\ [][NextSync]_vars

\* a PUT /data/:key in flight settles with success
putSucceeds(key) ==
  /\ key \in DOMAIN inflight
  /\ \E i \in 1..Len(inflight[key]) : putSettleOf(key, i, TRUE)

putSettleOk == \E key \in SyncKeys : putSucceeds(key)

NextSyncOk ==
  \/ setSync
  \/ putSettleOk

\* the same writes where every PUT settles, and with success
SpecSyncOk ==
  /\ InitSync /\ [][NextSyncOk]_vars
  /\ \A key \in SyncKeys : WF_vars(putSucceeds(key))

\* the three queries of the engine as calls, with their arguments drawn
\* from dates and ids
queryByRecordDate(dates) ==
  \E dateStr \in dates :
    /\ call' = [op |-> "getSlotByRecordDate", id |-> NoId, date |-> dateStr,
                found |-> <<>>, ret |-> getSlotByRecordDate(dateStr),
                saved |-> <<>>, repeated |-> FALSE]
    /\ UNCHANGED <<peer, browserPage, tz, now, storeVars>>

queryByReleaseDate(dates) ==
  \E dateStr \in dates :
    /\ call' = [op |-> "getSlotsByReleaseDate", id |-> NoId, date |-> dateStr,
                found |-> <<>>, ret |-> getSlotsByReleaseDate(dateStr),
                saved |-> <<>>, repeated |-> FALSE]
    /\ UNCHANGED <<peer, browserPage, tz, now, storeVars>>

queryById(ids) ==
  \E slotId \in ids :
    /\ call' = [op |-> "getSlotById", id |-> slotId, date |-> NoDate,
                found |-> <<>>, ret |-> getSlotById(slotId),
                saved |-> <<>>, repeated |-> FALSE]
    /\ UNCHANGED <<peer, browserPage, tz, now, storeVars>>

\* the queries are explored over the localStorage fallback on two readings
\* of the clock (2025-12-02T20:00Z and 2025-12-10T03:00Z), with overrides
\* of one slot
QueryNowSet == { DayNum(2025, 12, 2) * 24 + 20, DayNum(2025, 12, 10) * 24 + 3 }
QuerySlotIdInputs == { <<"slot_", 1>>, <<"slot_", 9>> }

InitQuery ==
  /\ tz \in Zones
  /\ now \in QueryNowSet
  /\ useLocalFallback = TRUE
  /\ localStorage = <<>>
  /\ cache = <<>>
  /\ syncing = <<>>
  /\ inflight = <<>>
  /\ remote = <<>>
  /\ call = NoCall
  /\ browserPage = LoadedPage(useLocalFallback)
  /\ peer = NoPeer

TickQuery == TickIn(QueryNowSet)
setReleaseDateQuery == setReleaseDateOf(QuerySlotIdInputs, OverrideDates)
getSlotByRecordDateQuery == queryByRecordDate(QueryDates)
getSlotsByReleaseDateQuery == queryByReleaseDate(QueryDates)
getSlotByIdQuery == queryById(QuerySlotIdInputs)

NextQuery ==
  \/ TickQuery
  \/ ensureSlots
  \/ setReleaseDateQuery
  \/ getSlotByRecordDateQuery
  \/ getSlotsByReleaseDateQuery
  \/ getSlotByIdQuery

SpecQuery == InitQuery /\ [][NextQuery]_vars

\* Storage.assignIdeaToSlot(ideaId, slotId); the call records the slots the
\* idea held before
assignIdeaToSlotOf(ideaIds, slotIds) ==
  \E ideaId \in ideaIds, slotId \in slotIds :
    LET assignments == getAssignments
        st1 == setIn(store, "assignments",
                     Put(withoutIdea(assignments, ideaId), slotId, ideaId))
        st2 == updateIdeaIn(st1, ideaId, [status |-> "scheduled"])
    IN  /\ storeBecomes(st2)
        /\ call' = [op |-> "assignIdeaToSlot", id |-> slotId, date |-> NoDate,
                    found |-> <<>>, ret |-> <<>>, saved |-> <<>>,
                    repeated |-> FALSE, idea |-> ideaId,
                    from |-> { s \in DOMAIN assignments :
                                 assignments[s] = ideaId }]
        /\ UNCHANGED <<peer, browserPage, tz, now>>

\* Storage.unassignSlot(slotId); the call records the idea the slot held
unassignSlotOf(slotIds) ==
  \E slotId \in slotIds :
    LET assignments == getAssignments
        held == slotId \in DOMAIN assignments /\ assignments[slotId] # ""
    IN  /\ IF held
             THEN storeBecomes(
                    updateIdeaIn(
                      setIn(store, "assignments", Delete(assignments, slotId)),
                      assignments[slotId], [status |-> "processed"]))
             ELSE UNCHANGED storeVars
        /\ call' = [op |-> "unassignSlot", id |-> slotId, date |-> NoDate,
                    found |-> <<>>, ret |-> <<>>, saved |-> <<>>,
                    repeated |-> FALSE,
                    idea |-> IF held THEN assignments[slotId] ELSE "",
                    from |-> IF held THEN {slotId} ELSE {}]
        /\ UNCHANGED <<peer, browserPage, tz, now>>

\* what localStorage may hold under the key of the slot collection when the
\* page is opened over a store the program did not write: nothing, the
\* text null, or the text of a collection cut short
StaleSlot == [id |-> <<"slot_", 1>>, episodeNum |-> 1,
              episodeNumber |-> _formatEpNumber(1),
              recordDate |-> FIRST_RECORD_DAY - 7,
              releaseDate |-> LAUNCH_DAY - 7, isRollout |-> TRUE]
MalformedStores ==
  { <<>>, [showSlots |-> NullText],
    [showSlots |-> TruncatedText(<<StaleSlot>>)] }

InitRecover ==
  /\ tz \in Zones
  /\ now \in QueryNowSet
  /\ useLocalFallback = TRUE
  /\ localStorage \in MalformedStores
  /\ cache = <<>>
  /\ syncing = <<>>
  /\ inflight = <<>>
  /\ remote = <<>>
  /\ call = NoCall
  /\ browserPage = LoadedPage(useLocalFallback)
  /\ peer = NoPeer

\* the page is reopened over a store the program did not write
reopenMalformed ==
  /\ localStorage' \in MalformedStores
  /\ call' = [NoCall EXCEPT !.op = "reopen"]
  /\ UNCHANGED <<peer, browserPage, tz, now, useLocalFallback, cache, syncing, inflight, remote>>

NextRecover ==
  \/ TickQuery
  \/ ensureSlots
  \/ setReleaseDateQuery
  \/ getSlotByIdQuery
  \/ reopenMalformed

\* the engine over a localStorage whose slot collection may be malformed
SpecRecover == InitRecover /\ [][NextRecover]_vars

\* the planner's inputs: three slots, two stored ideas and the id of an
\* idea that is not stored
AssignSlotIds == { <<"slot_", 1>>, <<"slot_", 2>>, <<"slot_", 3>> }
AssignIdeaIds == { "idea_a", "idea_b", "idea_gone" }
AssignIdeas ==
  << [id |-> "idea_a", status |-> "processed", titles |-> <<"Brine">>],
     [id |-> "idea_b", status |-> "processed", titles |-> <<"Pepper">>] >>

\* the localStorage fallback holding the two ideas and no assignment
InitAssign ==
  /\ tz = "UTC"
  /\ now = DayNum(2025, 12, 2) * 24 + 20
  /\ useLocalFallback = TRUE
  /\ localStorage = [ideas |-> JSONstringify(AssignIdeas)]
  /\ cache = <<>>
  /\ syncing = <<>>
  /\ inflight = <<>>
  /\ remote = <<>>
  /\ call = NoCall
  /\ browserPage = LoadedPage(useLocalFallback)
  /\ peer = NoPeer

assignIdeaToSlot == assignIdeaToSlotOf(AssignIdeaIds, AssignSlotIds)
unassignSlot == unassignSlotOf(AssignSlotIds)

NextAssign ==
  \/ assignIdeaToSlot
  \/ unassignSlot

\* the planner's assignments over the localStorage fallback of the store
SpecAssign == InitAssign /\ [][NextAssign]_vars

(***************************************************************************)
(* Public feed of the Worker (cloudflare/worker.js, handlePublicEpisodes). *)
(* A string is falsy when it is empty; an absent field reads undefined.    *)
(***************************************************************************)
\* nowPST.toISOString().split('T')[0] with nowPST 8 hours before nowUTC
todayPST(t) == toISODate(t - 8)

\* raw ? JSON.parse(raw) : dflt, for the KV value of a key
kvGet(kv, key, dflt) == IF key \in DOMAIN kv THEN JSONparse(kv[key]) ELSE dflt

\* ideasMap[ideaId] after ideas.forEach(idea => ideasMap[idea.id] = idea):
\* the last idea with that id as <<idea>>, undefined as <<>>
ideasMapGet(ideas, ideaId) ==
  IF \E i \in 1..Len(ideas) : ideas[i].id = ideaId
    THEN <<ideas[CHOOSE i \in 1..Len(ideas) :
                   /\ ideas[i].id = ideaId
                   /\ \A j \in (i + 1)..Len(ideas) : ideas[j].id # ideaId]>>
    ELSE <<>>

\* idea.selectedTitle || (idea.titles && idea.titles[0]) || null, with the
\* title as <<title>> and null as <<>>
titleOf(idea) ==
  IF "selectedTitle" \in DOMAIN idea /\ idea.selectedTitle # ""
    THEN <<idea.selectedTitle>>
  ELSE IF "titles" \in DOMAIN idea /\ Len(idea.titles) > 0
            /\ idea.titles[1] # ""
    THEN <<idea.titles[1]>>
  ELSE <<>>

\* the title under which the loop body publishes the slot, <<>> if one of
\* its three lookups (assignment, idea, title) makes it continue
slotTitle(slot, assignments, ideas) ==
  IF slot.id \notin DOMAIN assignments \/ assignments[slot.id] = ""
    THEN <<>>
  ELSE LET idea == ideasMapGet(ideas, assignments[slot.id]) IN
       IF idea = <<>> THEN <<>> ELSE titleOf(idea[1])

\* the loop over the slots: the episodes pushed, in slot order
RECURSIVE pushEpisodes(_, _, _, _)
pushEpisodes(slots, assignments, ideas, today) ==
  IF slots = <<>> THEN <<>>
  ELSE LET slot == Head(slots)
           title == slotTitle(slot, assignments, ideas)
           rest == pushEpisodes(Tail(slots), assignments, ideas, today)
       IN  IF slot.releaseDate > today \/ title = <<>>
             THEN rest
             ELSE <<[episodeNumber |-> slot.episodeNumber,
                     title |-> title[1],
                     summary |-> LET idea == ideasMapGet(ideas, assignments[slot.id])[1]
                                 IN  IF "summary" \in DOMAIN idea
                                       THEN idea.summary ELSE "",
                     releaseDate |-> slot.releaseDate]>> \o rest

\* allEpisodes.sort((a, b) => b.releaseDate.localeCompare(a.releaseDate)):
\* newest first, episodes of one date in their order of insertion
RECURSIVE sortNewestFirst(_)
sortNewestFirst(eps) ==
  IF eps = <<>> THEN <<>>
  ELSE LET m == CHOOSE i \in 1..Len(eps) :
                  /\ \A j \in 1..Len(eps) : eps[j].releaseDate <= eps[i].releaseDate
                  /\ \A j \in 1..(i - 1) : eps[j].releaseDate < eps[i].releaseDate
       IN  <<eps[m]>> \o sortNewestFirst(SubSeq(eps, 1, m - 1)
                                           \o SubSeq(eps, m + 1, Len(eps)))

\* the released episodes of handlePublicEpisodes, before pagination, for
\* the KV store kv and the Worker's clock t
allEpisodes(kv, t) ==
  sortNewestFirst(pushEpisodes(kvGet(kv, "showSlots", <<>>),
                               kvGet(kv, "assignments", <<>>),
                               kvGet(kv, "ideas", <<>>),
                               todayPST(t)))

\* A number is <<n>>, NaN is <<>>.  A query parameter is <<>> when the URL
\* does not have it, <<"">> when it is empty, <<"int", n>> when its text is
\* the decimal numeral of n, and <<"word">> when it starts with no numeral.
NaN == <<>>
Num(n) == <<n>>

\* url.searchParams.get(name) || dflt
paramOr(param, dflt) ==
  IF param = <<>> \/ param = <<"">> THEN dflt ELSE param

\* parseInt(text, 10)
parseInt(text) == IF text[1] = "int" THEN Num(text[2]) ELSE NaN

\* Math.max and Math.min: NaN if an argument is
MathMax(a, b) ==
  IF a = NaN \/ b = NaN THEN NaN
  ELSE IF a[1] >= b[1] THEN a ELSE b

MathMin(a, b) ==
  IF a = NaN \/ b = NaN THEN NaN
  ELSE IF a[1] <= b[1] THEN a ELSE b

\* Math.ceil(a / b) for a >= 0 and b >= 1, NaN if an argument is
ceilDiv(a, b) ==
  IF a = NaN \/ b = NaN THEN NaN
  ELSE Num((a[1] + b[1] - 1) \div b[1])

\* the relative index Array.prototype.slice makes of a number: NaN is 0,
\* and an index past the end is the length
sliceIndex(x, len) ==
  IF x = NaN THEN 0
  ELSE IF x[1] > len THEN len ELSE x[1]

\* array.slice(startIdx, endIdx) for indices that are not negative
slice(array, startIdx, endIdx) ==
  SubSeq(array, sliceIndex(startIdx, Len(array)) + 1,
         sliceIndex(endIdx, Len(array)))

\* page and limit as handlePublicEpisodes computes them
effectivePage(pageParam) ==
  MathMax(Num(1), parseInt(paramOr(pageParam, <<"int", 1>>)))

effectiveLimit(limitParam) ==
  MathMin(Num(50), MathMax(Num(1), parseInt(paramOr(limitParam, <<"int", 10>>))))

\* the response body of GET /public/episodes?page=..&limit=..
publicEpisodes(kv, t, pageParam, limitParam) ==
  LET all == allEpisodes(kv, t)
      page == effectivePage(pageParam)
      limit == effectiveLimit(limitParam)
      total == Num(Len(all))
      totalPages == ceilDiv(total, limit)
      startIdx == IF page = NaN \/ limit = NaN THEN NaN
                  ELSE Num((page[1] - 1) * limit[1])
      endIdx == IF startIdx = NaN THEN NaN ELSE Num(startIdx[1] + limit[1])
  IN  [episodes |-> slice(all, startIdx, endIdx),
       pagination |-> [page |-> page, limit |-> limit, total |-> total,
                       totalPages |-> totalPages,
                       hasMore |-> /\ page # NaN /\ totalPages # NaN
                                   /\ page[1] < totalPages[1]]]

\* the feed is explored with the planner of a UTC browser on three
\* readings of the clock: 2026-03-03T07:00Z (still March 2 at UTC-8),
\* 2026-03-03T20:00Z and 2026-03-10T20:00Z
FeedZones == {"UTC"}
FeedNowSet == { DayNum(2026, 3, 3) * 24 + 7, DayNum(2026, 3, 3) * 24 + 20,
                DayNum(2026, 3, 10) * 24 + 20 }
FeedSlotIdInputs == { <<"slot_", 7>> }
FeedDateInputs == { LAUNCH_DAY, LAUNCH_DAY + 35 }

\* ideas: one with a selected title, one with generated titles only, one
\* not yet processed
FeedIdeas ==
  << [id |-> "idea_a", selectedTitle |-> "Salt", titles |-> <<"Brine", "Salt">>,
      summary |-> "About salt."],
     [id |-> "idea_b", titles |-> <<"Pepper">>, summary |-> ""],
     [id |-> "idea_c"] >>

\* assignments: slots 1 and 7 have ideas with a title, slot 2 an idea
\* without one, slot 3 an idea that was deleted since
FeedAssignments ==
  (<<"slot_", 1>> :> "idea_a") @@ (<<"slot_", 2>> :> "idea_c")
    @@ (<<"slot_", 3>> :> "idea_gone") @@ (<<"slot_", 7>> :> "idea_b")

\* the state after Storage.init() has loaded a store that earlier sessions
\* filled: the slots generated through the horizon, ideas and assignments
InitFeed ==
  /\ tz \in FeedZones
  /\ now \in FeedNowSet
  /\ useLocalFallback = FALSE
  /\ localStorage = <<>>
  /\ cache = [showSlots |-> ensureSlotsResult(tz, now, <<>>).slots,
              assignments |-> FeedAssignments,
              ideas |-> FeedIdeas]
  /\ syncing = <<>>
  /\ inflight = <<>>
  /\ remote = [key \in DOMAIN cache |-> JSONstringify(cache[key])]
  /\ call = NoCall
  /\ browserPage = LoadedPage(useLocalFallback)
  /\ peer = NoPeer

TickFeed == TickIn(FeedNowSet)
setReleaseDateFeed == setReleaseDateOf(FeedSlotIdInputs, FeedDateInputs)
resetReleaseDateFeed == resetReleaseDateOf(FeedSlotIdInputs)

NextFeed ==
  \/ TickFeed
  \/ ensureSlots
  \/ setReleaseDateFeed
  \/ resetReleaseDateFeed
  \/ putSettle

\* the planner over the API-backed store, with the public feed reading
\* the Worker's KV store
SpecFeed == InitFeed /\ [][NextFeed]_vars

\* GET /public/episodes: the call records the parameters and the response
getPublicEpisodesOf(pageParams, limitParams) ==
  \E pageParam \in pageParams, limitParam \in limitParams :
    /\ call' = [op |-> "GET /public/episodes", id |-> NoId, date |-> NoDate,
                found |-> <<>>, saved |-> <<>>, repeated |-> FALSE,
                page |-> pageParam, limit |-> limitParam,
                ret |-> <<publicEpisodes(remote, now, pageParam, limitParam)>>]
    /\ UNCHANGED <<peer, browserPage, tz, now, storeVars>>

\* the values of the two parameters: absent, empty, a word, negative, zero
\* and positive numerals, one of them over 50
PageParams == { <<>>, <<"">>, <<"word">>, <<"int", -1>>, <<"int", 0>>,
                <<"int", 1>>, <<"int", 2>>, <<"int", 4>> }
LimitParams == { <<>>, <<"">>, <<"word">>, <<"int", -1>>, <<"int", 0>>,
                 <<"int", 2>>, <<"int", 50>>, <<"int", 51>> }

\* five ideas with a title, assigned to the slots 1 to 4 and 7
PageIdeas ==
  [i \in 1..5 |-> [id |-> <<"idea_", i>>, status |-> "scheduled",
                   selectedTitle |-> <<"Title", i>>, summary |-> ""]]
PageAssignments ==
  [sid \in { <<"slot_", n>> : n \in {1, 2, 3, 4, 7} } |->
     <<"idea_", IF sid[2] = 7 THEN 5 ELSE sid[2]>>]

\* the state after Storage.init() has loaded a store that earlier sessions
\* filled and saved
InitPage ==
  /\ tz \in FeedZones
  /\ now \in FeedNowSet
  /\ useLocalFallback = FALSE
  /\ localStorage = <<>>
  /\ cache = [showSlots |-> ensureSlotsResult(tz, now, <<>>).slots,
              assignments |-> PageAssignments,
              ideas |-> PageIdeas]
  /\ syncing = <<>>
  /\ inflight = <<>>
  /\ remote = [key \in DOMAIN cache |-> JSONstringify(cache[key])]
  /\ call = NoCall
  /\ browserPage = LoadedPage(useLocalFallback)
  /\ peer = NoPeer

getPublicEpisodes == getPublicEpisodesOf(PageParams, LimitParams)

NextPage ==
  \/ TickFeed
  \/ getPublicEpisodes

\* the public feed of the Worker over a store with five released episodes
SpecPage == InitPage /\ [][NextPage]_vars

(***************************************************************************)
(* Routing of the Worker (cloudflare/worker.js, fetch).  A path is the     *)
(* sequence of its segments; the headers of a request are a function from  *)
(* header names to texts.                                                  *)
(***************************************************************************)
\* the check of the X-Auth header passing a request that has no header
authorized_orAbsent(headers) ==
  \/ "X-Auth" \notin DOMAIN headers
  \/ headers["X-Auth"] = ADMIN_PASSWORD

\* !(!authPassword || authPassword !== env.ADMIN_PASSWORD)
authorized(headers) ==
  /\ "X-Auth" \in DOMAIN headers
  /\ headers["X-Auth"] # ""
  /\ headers["X-Auth"] = ADMIN_PASSWORD

\* value ? JSON.parse(value) : null, as <<value>> or <<>>
kvValue(kv, key) == IF key \in DOMAIN kv THEN <<JSONparse(kv[key])>> ELSE <<>>

\* the body of GET /public/homepage
homepage(kv) ==
  LET config == kvGet(kv, "config", <<>>) IN
  [f \in {"youtubeVideo1", "youtubeVideo2", "youtubeVideo3"} |->
     IF f \in DOMAIN config THEN config[f] ELSE ""]

\* the KV store after PUT /import of data
imported_everyKey(kv, data) ==
  [key \in DOMAIN kv \cup DOMAIN data |->
     IF key \in DOMAIN data THEN JSONstringify(data[key]) ELSE kv[key]]

imported(kv, data) ==
  [key \in DOMAIN kv \cup (DATA_KEYS \cap DOMAIN data) |->
     IF key \in DATA_KEYS \cap DOMAIN data
       THEN JSONstringify(data[key]) ELSE kv[key]]

\* fetch(request, env): the status and body of the response, the KV keys
\* read and written, and the KV store afterwards
fetch(kv, t, request) ==
  LET method == request.method
      path == request.path
      answer(status, body) ==
        [status |-> status, body |-> body, reads |-> {}, writes |-> {},
         kv |-> kv]
  IN
  IF method = "OPTIONS" THEN answer(204, <<>>)
  ELSE IF path = <<"health">> THEN answer(200, [status |-> "ok"])
  ELSE IF method = "GET" /\ path = <<"public", "episodes">>
    THEN [answer(200, publicEpisodes(kv, t, request.page, request.limit))
            EXCEPT !.reads = {"showSlots", "assignments", "ideas"}]
  ELSE IF method = "GET" /\ path = <<"public", "homepage">>
    THEN [answer(200, homepage(kv)) EXCEPT !.reads = {"config"}]
  ELSE IF ~authorized(request.headers)
    THEN answer(401, [error |-> "Unauthorized"])
  ELSE IF method = "GET" /\ path[1] = "data"
    THEN IF path[2] \notin DATA_KEYS
           THEN answer(400, [error |-> "Invalid key"])
           ELSE [answer(200, kvValue(kv, path[2])) EXCEPT !.reads = {path[2]}]
  ELSE IF method = "PUT" /\ path[1] = "data"
    THEN IF path[2] \notin DATA_KEYS
           THEN answer(400, [error |-> "Invalid key"])
           ELSE [answer(200, [ok |-> TRUE, key |-> path[2]])
                   EXCEPT !.writes = {path[2]},
                          !.kv = Put(kv, path[2], JSONstringify(request.body))]
  ELSE IF method = "GET" /\ path = <<"export">>
    THEN [answer(200, [key \in DATA_KEYS |-> kvValue(kv, key)])
            EXCEPT !.reads = DATA_KEYS]
  ELSE IF method = "PUT" /\ path = <<"import">>
    THEN [answer(200, [ok |-> TRUE,
                       imported |-> DATA_KEYS \cap DOMAIN request.body])
            EXCEPT !.writes = DATA_KEYS \cap DOMAIN request.body,
                   !.kv = imported(kv, request.body)]
  ELSE answer(404, [error |-> "Not found"])

\* a request reaches the Worker; the call records it and the response
workerFetchOf(requests) ==
  \E request \in requests :
    LET r == fetch(remote, now, request) IN
    /\ remote' = r.kv
    /\ call' = [op |-> "fetch", id |-> NoId, date |-> NoDate, found |-> <<>>,
                saved |-> <<>>, repeated |-> FALSE, request |-> request,
                ret |-> <<[status |-> r.status, body |-> r.body]>>,
                reads |-> r.reads, writes |-> r.writes]
    /\ UNCHANGED <<peer, browserPage, tz, now, useLocalFallback, localStorage, cache, syncing,
                   inflight>>

\* the requests: every method on every kind of path with no X-Auth header,
\* an empty one, a wrong one and the right one; a PUT carries an empty
\* collection, or for /import an export with two of the keys and its
\* exportDate
Methods == {"OPTIONS", "GET", "PUT", "POST"}
Paths == { <<"health">>, <<"public", "episodes">>, <<"public", "homepage">>,
           <<"public", "drafts">>, <<"data", "showSlots">>,
           <<"data", "sessions">>, <<"export">>, <<"import">>, <<"admin">> }
HeaderSets == { <<>>, [x \in {"X-Auth"} |-> ""],
                [x \in {"X-Auth"} |-> "guess"],
                [x \in {"X-Auth"} |-> ADMIN_PASSWORD] }
Requests ==
  { [method |-> m, path |-> p, headers |-> h, page |-> <<>>, limit |-> <<>>,
     body |-> IF p = <<"import">>
                THEN [ideas |-> <<>>, assignments |-> <<>>,
                      exportDate |-> DayNum(2026, 3, 1)]
                ELSE <<>>] :
      m \in Methods, p \in Paths, h \in HeaderSets }

workerFetch == workerFetchOf(Requests)

NextWorker ==
  \/ TickFeed
  \/ workerFetch

\* the Worker answering requests over a store that earlier sessions filled
SpecWorker == InitPage /\ [][NextWorker]_vars

(***************************************************************************)
(* Config, import and migration (js/storage.js).                           *)
(***************************************************************************)
\* Storage.saveConfig(config)
saveConfigOf(configs) ==
  \E config \in configs :
    /\ storeBecomes(setIn(store, "config", config))
    /\ call' = [NoCall EXCEPT !.op = "saveConfig", !.saved = <<config>>]
    /\ UNCHANGED <<peer, browserPage, tz, now>>

\* if (data[key]) this.save...(data[key]) for one key of importAll
importKeyIn(st, data, key) ==
  IF key \in DOMAIN data THEN setIn(st, key, data[key]) ELSE st

\* Storage.importAll(data)
importAllOf(datas) ==
  \E data \in datas :
    /\ storeBecomes(
         importKeyIn(
           importKeyIn(
             importKeyIn(
               importKeyIn(
                 importKeyIn(store, data, "config"),
                 data, "ideas"),
               data, "jokes"),
             data, "showSlots"),
           data, "assignments"))
    /\ call' = [NoCall EXCEPT !.op = "importAll", !.saved = <<data>>]
    /\ UNCHANGED <<peer, browserPage, tz, now>>

\* the data migrateFromLocalStorage collects: every key of localStorage
\* whose text parses to a value
localData ==
  [key \in { k \in DATA_KEYS \cap DOMAIN localStorage :
               ParsesToValue(localStorage[k]) } |->
     JSONparse(localStorage[key])]

\* the cache Storage.init() fills from the answer of GET /export
cacheFromExport(kv) ==
  [key \in (DATA_KEYS \ {"config"}) \cup (DOMAIN kv \cap {"config"}) |->
     kvGet(kv, key, <<>>)]

\* Storage.migrateFromLocalStorage(): PUT /import of the local data, then
\* init() again; either request may fail.  The call records the body sent.
migrateFromLocalStorage ==
  \E imported_ok \in BOOLEAN, export_ok \in BOOLEAN :
    /\ localData # <<>>
    /\ remote' = IF imported_ok THEN imported(remote, localData) ELSE remote
    /\ cache' = IF imported_ok /\ export_ok
                  THEN cacheFromExport(remote') ELSE cache
    /\ call' = [NoCall EXCEPT !.op = "migrateFromLocalStorage",
                              !.saved = <<localData>>,
                              !.ret = <<imported_ok /\ export_ok>>]
    /\ UNCHANGED <<peer, browserPage, tz, now, useLocalFallback, localStorage, syncing, inflight>>

\* a config with an API key of the AI service, and one without
KeyedConfig == [aiModel |-> "claude", claudeApiKey |-> "sk-ant-secret",
                openaiApiKey |-> "", titleCount |-> 3]
PlainConfig == [aiModel |-> "claude", claudeApiKey |-> "",
                openaiApiKey |-> "", titleCount |-> 5]
ImportDatas == { [config |-> KeyedConfig, ideas |-> <<>>],
                 [ideas |-> AssignIdeas] }

\* the API-backed store after Storage.init() over an empty remote store,
\* in a browser whose localStorage holds the data of earlier local use
InitConfig ==
  /\ tz = "UTC"
  /\ now = DayNum(2025, 12, 2) * 24 + 20
  /\ useLocalFallback = FALSE
  /\ localStorage \in { [config |-> JSONstringify(KeyedConfig)],
                         [ideas |-> JSONstringify(AssignIdeas)] }
  /\ remote = <<>>
  /\ cache = cacheFromExport(remote)
  /\ syncing = <<>>
  /\ inflight = <<>>
  /\ call = NoCall
  /\ browserPage = LoadedPage(useLocalFallback)
  /\ peer = NoPeer

saveConfig == saveConfigOf({KeyedConfig, PlainConfig})
importAll == importAllOf(ImportDatas)

NextConfig ==
  \/ saveConfig
  \/ importAll
  \/ migrateFromLocalStorage
  \/ putSettle

\* config, import and migration over the API-backed store
SpecConfig == InitConfig /\ [][NextConfig]_vars

(***************************************************************************)
(* Loading of a protected page (js/auth.js, Auth v3; js/storage.js, init). *)
(***************************************************************************)
\* _tokenTTL, in hours
tokenTTL == 8

\* Storage._getPassword(): the password of the session as <<password>>,
\* null as <<>>
getPassword(pg) ==
  IF pg.session = <<>> \/ pg.session[1].password = ""
    THEN <<>> ELSE <<pg.session[1].password>>

\* Auth._hasValidSession(), and the session it leaves in sessionStorage
hasValidSession_anyAge(pg, t) ==
  /\ pg.session # <<>>
  /\ pg.session[1].hash = pg.expectedHash

hasValidSession(pg, t) ==
  /\ pg.session # <<>>
  /\ ~(t - pg.session[1].ts > tokenTTL)
  /\ pg.session[1].hash = pg.expectedHash

sessionAfterCheck(pg, t) ==
  IF pg.session # <<>> /\ t - pg.session[1].ts > tokenTTL
    THEN <<>> ELSE pg.session

\* Auth.init(): in dev mode and with a valid session the gate is hidden,
\* the content shown and _initStorage started; otherwise the gate is shown
AuthInit ==
  /\ browserPage.pc = "load"
  /\ IF browserPage.expectedHash = PASSWORD_HASH_PLACEHOLDER
       THEN browserPage' = [browserPage EXCEPT
              !.gate = "none", !.content = "block", !.pc = "initStorage"]
       ELSE IF hasValidSession(browserPage, now)
       THEN browserPage' = [browserPage EXCEPT
              !.gate = "none", !.content = "block", !.pc = "initStorage"]
       ELSE browserPage' = [browserPage EXCEPT
              !.session = sessionAfterCheck(browserPage, now),
              !.gate = "flex", !.content = "none", !.loading = "none",
              !.pc = "gate"]
  /\ call' = [NoCall EXCEPT !.op = "Auth.init"]
  /\ UNCHANGED <<peer, tz, now, storeVars>>

\* Auth._attempt with the password typed into the gate
attemptOf(passwords) ==
  \E pw \in passwords :
    /\ browserPage.pc = "gate"
    /\ IF pw = ""
         THEN UNCHANGED browserPage
         ELSE IF sha256(pw) = browserPage.expectedHash
         THEN browserPage' = [browserPage EXCEPT
                !.session = <<[hash |-> sha256(pw), password |-> pw,
                               ts |-> now]>>,
                !.gate = "none", !.content = "block", !.pc = "initStorage"]
         ELSE browserPage' = [browserPage EXCEPT !.toast = "Wrong password"]
    /\ call' = [NoCall EXCEPT !.op = "Auth._attempt", !.saved = <<pw>>]
    /\ UNCHANGED <<peer, tz, now, storeVars>>

\* Storage.init(): the error thrown ("" for none), and the fallback flag
\* and the cache it leaves; exportOk tells whether GET /export got through
StorageInit(pg, kv, exportOk) ==
  LET password == getPassword(pg) IN
  IF password = <<>>
    THEN [error |-> "Not authenticated",
          useLocalFallback |-> useLocalFallback, cache |-> cache]
  ELSE IF pg.apiUrl = API_URL_PLACEHOLDER
    THEN [error |-> "", useLocalFallback |-> TRUE, cache |-> localData]
  ELSE IF password[1] # ADMIN_PASSWORD
    THEN [error |-> "Invalid password",
          useLocalFallback |-> useLocalFallback, cache |-> cache]
  ELSE IF ~exportOk
    THEN [error |-> "API error",
          useLocalFallback |-> useLocalFallback, cache |-> cache]
  ELSE [error |-> "", useLocalFallback |-> FALSE,
        cache |-> cacheFromExport(kv)]

\* Auth._initStorage(loading): Storage.init(), the migration of local data
\* once the user confirms it, then onStorageReady(); an error on the way is
\* shown as a toast and onStorageReady() is not called
initStorage ==
  \E exportOk \in BOOLEAN, confirm \in BOOLEAN, importOk \in BOOLEAN :
    LET first == StorageInit(browserPage, remote, exportOk)
        hasLocalData == DATA_KEYS \cap DOMAIN localStorage # {}
        apiEmpty == /\ Len(first.cache["ideas"]) = 0
                    /\ Len(first.cache["jokes"]) = 0
        migrates == /\ first.error = "" /\ ~first.useLocalFallback
                    /\ hasLocalData /\ apiEmpty /\ confirm
                    /\ localData # <<>>
        kv == IF migrates /\ importOk THEN imported(remote, localData)
                                       ELSE remote
        second == IF migrates /\ importOk
                    THEN StorageInit(browserPage, kv, exportOk)
                    ELSE first
        error == IF migrates /\ ~importOk THEN "Migration failed"
                                           ELSE second.error
    IN  /\ browserPage.pc = "initStorage"
        /\ remote' = kv
        /\ useLocalFallback' = second.useLocalFallback
        /\ cache' = second.cache
        /\ browserPage' = [browserPage EXCEPT
             !.loading = "none",
             !.pc = IF error = "" THEN "ready" ELSE "failed",
             !.onStorageReadyRan = (error = ""),
             !.toast = IF error = "" THEN @ ELSE error]
        /\ call' = [NoCall EXCEPT
                      !.op = "Auth._initStorage",
                      !.saved = IF migrates THEN <<localData>> ELSE <<>>]
        /\ UNCHANGED <<peer, tz, now, localStorage, syncing, inflight>>

\* the page is loaded again: the scripts start afresh, sessionStorage,
\* localStorage and the remote store stay
reload ==
  /\ browserPage.pc \in {"gate", "ready", "failed"}
  /\ browserPage' = [browserPage EXCEPT
       !.gate = "", !.content = "", !.loading = "", !.pc = "load",
       !.onStorageReadyRan = FALSE, !.toast = ""]
  /\ useLocalFallback' = FALSE
  /\ cache' = <<>>
  /\ syncing' = <<>>
  /\ inflight' = <<>>
  /\ call' = [NoCall EXCEPT !.op = "reload"]
  /\ UNCHANGED <<peer, tz, now, localStorage, remote>>

\* Auth.logout()
logout ==
  /\ browserPage.pc = "ready"
  /\ browserPage' = [browserPage EXCEPT
       !.session = <<>>,
       !.gate = "", !.content = "", !.loading = "", !.pc = "load",
       !.onStorageReadyRan = FALSE, !.toast = ""]
  /\ useLocalFallback' = FALSE
  /\ cache' = <<>>
  /\ syncing' = <<>>
  /\ inflight' = <<>>
  /\ call' = [NoCall EXCEPT !.op = "Auth.logout"]
  /\ UNCHANGED <<peer, tz, now, localStorage, remote>>

\* the page as the browser starts to load it, with each placeholder either
\* left in place or replaced by the deployment, and no session or, on a
\* deployed page, the session of a deployment with another password
AuthNowSet == { DayNum(2025, 12, 2) * 24 + h : h \in {8, 12, 16, 17} }
AuthPasswords == {"", "guess", ADMIN_PASSWORD}

\* the schedule as earlier local use left it in localStorage, and as
\* another client left it in the remote store, with an override on slot 6
AuthLocalSlots ==
  ensureSlotsResult("UTC", DayNum(2025, 12, 2) * 24 + 8, <<>>).slots
AuthRemoteSlots ==
  [AuthLocalSlots EXCEPT ![6] = Put(@, "releaseDateOverride", LAUNCH_DAY + 35)]

StaleSession ==
  [hash |-> sha256("guess"), password |-> "guess",
   ts |-> DayNum(2025, 12, 2) * 24 + 8]

InitAuth ==
  /\ tz = "UTC"
  /\ now = DayNum(2025, 12, 2) * 24 + 8
  /\ useLocalFallback = FALSE
  /\ localStorage \in { <<>>, [ideas |-> JSONstringify(AssignIdeas)],
                         [showSlots |-> JSONstringify(AuthLocalSlots)] }
  /\ cache = <<>>
  /\ syncing = <<>>
  /\ inflight = <<>>
  /\ remote \in { <<>>, [showSlots |-> JSONstringify(AuthRemoteSlots)] }
  /\ call = NoCall
  /\ browserPage \in
       [expectedHash : {PASSWORD_HASH_PLACEHOLDER, sha256(ADMIN_PASSWORD)},
        apiUrl : {API_URL_PLACEHOLDER, API_URL},
        session : {<<>>, <<StaleSession>>},
        gate : {""}, content : {""}, loading : {""},
        pc : {"load"}, onStorageReadyRan : {FALSE}, toast : {""}]
  /\ browserPage.session # <<>>
       => browserPage.expectedHash # PASSWORD_HASH_PLACEHOLDER
  /\ peer = NoPeer

TickAuth == TickIn(AuthNowSet)
attempt == attemptOf(AuthPasswords)

NextAuth ==
  \/ TickAuth
  \/ AuthInit
  \/ attempt
  \/ initStorage
  \/ reload
  \/ logout

\* the loading of a protected page
SpecAuth == InitAuth /\ [][NextAuth]_vars

\* the same, where a page that has started to load goes on loading
SpecAuthFair ==
  SpecAuth /\ WF_vars(AuthInit) /\ WF_vars(initStorage)

(***************************************************************************)
(* Two browser clients of one remote store.  Each client has loaded the    *)
(* data with Storage.init(); the second client runs the same code over its *)
(* own cache.                                                              *)
(***************************************************************************)
\* ShowEngine.setReleaseDate(slotId, newDate) in the second client
peerSetReleaseDateOf(ids, dates) ==
  \E slotId \in ids, newDate \in dates :
    LET slots == getIn(peer, "showSlots", <<>>)
        i == findById(slots, slotId)
    IN  /\ i # 0
        /\ peer' = setIn(peer, "showSlots",
                         [slots EXCEPT
                            ![i] = Put(@, "releaseDateOverride", newDate)])
        /\ call' = [NoCall EXCEPT !.op = "peer.setReleaseDate",
                                  !.id = slotId, !.date = newDate]
        /\ UNCHANGED <<browserPage, tz, now, storeVars>>

\* ShowEngine.ensureSlots() in the second client
peerEnsureSlots ==
  LET r == ensureSlotsResult(tz, now, getIn(peer, "showSlots", <<>>)) IN
  /\ peer' = IF r.save THEN setIn(peer, "showSlots", r.slots) ELSE peer
  /\ call' = [NoCall EXCEPT !.op = "peer.ensureSlots", !.ret = r.slots]
  /\ UNCHANGED <<browserPage, tz, now, storeVars>>

\* a PUT /data/:key of the second client settles with success, and the
\* .finally handler of its _pushToApi runs
peerPutSucceeds ==
  \E key \in DOMAIN peer.inflight :
    LET body == peer.inflight[key][1]
        others == Tail(peer.inflight[key])
        left == IF others = <<>> THEN Delete(peer.inflight, key)
                                 ELSE Put(peer.inflight, key, others)
        dirty == key \in DOMAIN peer.syncing /\ peer.syncing[key].dirty
    IN  /\ remote' = Put(remote, key, JSONstringify(JSONparse(body)))
        /\ peer' = [peer EXCEPT
             !.syncing = IF dirty
                           THEN Put(@, key, [dirty |-> FALSE,
                                             value |-> @[key].value])
                           ELSE Delete(@, key),
             !.inflight = IF dirty
                            THEN sendPut(left, key,
                                   JSONstringify(peer.syncing[key].value))
                            ELSE left]
        /\ call' = NoCall
        /\ UNCHANGED <<browserPage, tz, now, useLocalFallback, localStorage,
                       cache, syncing, inflight>>

\* a PUT /data/:key of the first client settles with success
putSucceedsAny == \E key \in DOMAIN inflight : putSucceeds(key)

\* both clients have loaded a store whose schedule was generated a week
\* before; the first client overrides slot 7, the second slot 1
TwoNowSet == { DayNum(2025, 12, 2) * 24 + 20, DayNum(2025, 12, 10) * 24 + 3 }
TwoSlotIdInputs == { <<"slot_", 7>> }
TwoPeerSlotIdInputs == { <<"slot_", 1>> }

InitTwo ==
  /\ tz = "UTC"
  /\ now = DayNum(2025, 12, 2) * 24 + 20
  /\ useLocalFallback = FALSE
  /\ localStorage = <<>>
  /\ remote = [showSlots |->
                 JSONstringify(ensureSlotsResult(tz, now, <<>>).slots)]
  /\ cache = cacheFromExport(remote)
  /\ syncing = <<>>
  /\ inflight = <<>>
  /\ call = NoCall
  /\ browserPage = LoadedPage(useLocalFallback)
  /\ peer = [NoPeer EXCEPT !.cache = cacheFromExport(remote)]

TickTwo == TickIn(TwoNowSet)
setReleaseDateTwo == setReleaseDateOf(TwoSlotIdInputs, OverrideDates)
peerSetReleaseDate == peerSetReleaseDateOf(TwoPeerSlotIdInputs, OverrideDates)

NextTwo ==
  \/ TickTwo
  \/ ensureSlots
  \/ setReleaseDateTwo
  \/ putSucceedsAny
  \/ peerEnsureSlots
  \/ peerSetReleaseDate
  \/ peerPutSucceeds

\* two clients writing the slot collection, every PUT succeeding
SpecTwo == InitTwo /\ [][NextTwo]_vars

(***************************************************************************)
(* Properties of the schedule engine.                                      *)
(***************************************************************************)
\* the stored collection, as every reader sees it
stored == getShowSlots

\* s is t followed by further elements
IsPrefix(t, s) == Len(t) <= Len(s) /\ \A i \in 1..Len(t) : s[i] = t[i]

\* C1: in every reachable state the stored collection has episodeNum
\* values exactly 1..N in stored order and consecutive record dates are
\* exactly 7 days apart.
C1_Contiguity ==
  \A i \in 1..Len(stored) :
    /\ stored[i].episodeNum = i
    /\ i < Len(stored) => stored[i + 1].recordDate = stored[i].recordDate + 7

\* the calendar day of the horizon target, on the user's calendar
TargetDay == toISODate(LocalTime(tz, _getTargetDate(tz, now)))

\* C2: after ensureSlots() returns, the stored collection holds a slot for
\* every date firstRecordDate + 7k that is on or before the target date
\* (current date + GENERATE_MONTHS_AHEAD months) and the call created no
\* slot with a record date after the target date.
C2_CoversHorizon ==
  [][ensureSlots =>
       /\ \A d \in FIRST_RECORD_DAY..TargetDay :
            (d - FIRST_RECORD_DAY) % 7 = 0
              => \E i \in 1..Len(stored') : stored'[i].recordDate = d
       /\ \A i \in (Len(stored) + 1)..Len(stored') :
            stored'[i].recordDate <= TargetDay]_vars

\* C3: when ensureSlots() runs on a non-empty collection of N slots whose
\* last record date D is before the target, the collection afterwards is
\* the previous one, unchanged, followed by slots with record dates D+7,
\* D+14, ... and episode numbers N+1, N+2, ...
C3_Extension ==
  [][(ensureSlots /\ Len(stored) > 0
        /\ DateFromISO(stored[Len(stored)].recordDate) < _getTargetDate(tz, now))
       => /\ IsPrefix(stored, stored')
          /\ \A i \in (Len(stored) + 1)..Len(stored') :
               /\ stored'[i].episodeNum = i
               /\ stored'[i].recordDate =
                    stored[Len(stored)].recordDate + 7 * (i - Len(stored))]_vars

\* C4: a second ensureSlots() call in immediate succession (no time
\* passing) leaves the stored collection as the first call left it.
C4_Idempotent ==
  [][(call.op = "ensureSlots" /\ ensureSlots) => stored' = stored]_vars

\* C5: a second ensureSlots() call in immediate succession, after the
\* first has reached the horizon, does not call Storage.saveShowSlots and
\* returns the unchanged collection.
C5_NoWriteAtHorizon ==
  [][(call.op = "ensureSlots" /\ ensureSlots)
       => call'.saved = <<>> /\ call'.ret = stored]_vars

Banked(slot) == slot.recordDate + 7 <= LAUNCH_DAY

\* C7: every stored banked slot with episode number n has releaseDate =
\* launch date + 7 * floor((n - 1) / K) days and isRollout = true.
C7_BankedRelease ==
  \A i \in 1..Len(stored) :
    Banked(stored[i]) =>
      /\ stored[i].releaseDate =
           LAUNCH_DAY + 7 * ((stored[i].episodeNum - 1) \div ROLLOUT_EPISODES_PER_WEEK)
      /\ stored[i].isRollout

\* C8: every stored slot whose record date plus 7 days is after the launch
\* date has releaseDate = recordDate + 7 days and isRollout = false.
C8_PostLaunchRelease ==
  \A i \in 1..Len(stored) :
    ~Banked(stored[i]) =>
      /\ stored[i].releaseDate = stored[i].recordDate + 7
      /\ ~stored[i].isRollout

\* C9: in every reachable stored collection the slots with isRollout =
\* true are exactly the slots with episodeNum 1..M for some M >= 0.
C9_RolloutPrefix ==
  \E M \in 0..Len(stored) :
    \A i \in 1..Len(stored) :
      /\ stored[i].isRollout <=> stored[i].episodeNum <= M
      /\ stored[i].isRollout => stored[i].episodeNum = i

C9_Witness ==
  /\ Len(stored) > 0
  /\ stored[1].isRollout
  /\ ~stored[Len(stored)].isRollout

Generated(slot) == [f \in DOMAIN slot \ {"releaseDateOverride"} |-> slot[f]]

\* the collection with the slot of the given id as generation made it
WithGenerated(slots, slotId) ==
  [k \in 1..Len(slots) |->
     IF slots[k].id = slotId THEN Generated(slots[k]) ELSE slots[k]]

C12_UnknownIdNoop ==
  [][(/\ call'.op \in {"setReleaseDate", "resetReleaseDate"}
      /\ \A k \in 1..Len(stored) : stored[k].id # call'.id)
       => /\ call'.ret = <<>>
          /\ call'.saved = <<>>
          /\ stored' = stored
          /\ storeVars' = storeVars]_vars

C12_Witness ==
  /\ call.op \in {"setReleaseDate", "resetReleaseDate"}
  /\ call.ret = <<>>
  /\ Len(stored) > 0
  /\ \A k \in 1..Len(stored) : stored[k].id # call.id
  /\ \E k \in 1..Len(stored) : "releaseDateOverride" \in DOMAIN stored[k]

\* the fields a slot gets at generation
SlotFields ==
  {"id", "episodeNumber", "episodeNum", "recordDate", "releaseDate", "isRollout"}

\* C13: across any sequence of ensureSlots, setReleaseDate and
\* resetReleaseDate, a slot that exists is never removed and its id,
\* episodeNumber, episodeNum, recordDate, releaseDate and isRollout never
\* change; setReleaseDate(id, ...) and resetReleaseDate(id) change only the
\* releaseDateOverride field of the slot with that id and leave every other
\* slot unchanged.
C13_Frame ==
  [][/\ Len(stored') >= Len(stored)
     /\ \A k \in 1..Len(stored) :
          /\ SlotFields \subseteq DOMAIN stored'[k]
          /\ \A f \in SlotFields : stored'[k][f] = stored[k][f]
     /\ call'.op \in {"setReleaseDate", "resetReleaseDate"}
          => /\ Len(stored') = Len(stored)
             /\ \A k \in 1..Len(stored) :
                  /\ stored[k].id # call'.id => stored'[k] = stored[k]
                  /\ DOMAIN stored'[k] \subseteq
                       SlotFields \cup {"releaseDateOverride"}]_vars

C13_Witness ==
  /\ call.op = "ensureSlots"
  /\ Len(call.saved) = 1
  /\ \E j, k \in 1..Len(stored) :
       /\ j # k
       /\ "releaseDateOverride" \in DOMAIN stored[j]
       /\ "releaseDateOverride" \in DOMAIN stored[k]
       /\ stored[j].releaseDateOverride # stored[k].releaseDateOverride

\* C14: with first-record date 2026-01-20, launch date 2026-03-03 and
\* rollout width 2, generation yields EP001 record 2026-01-20 / release
\* 2026-03-03, EP002 record 2026-01-27 / release 2026-03-03, EP003 record
\* 2026-02-03 / release 2026-03-10, all with isRollout = true, and EP004
\* has record date 2026-02-10 and is classified banked (its natural
\* release 2026-02-17 is on or before the launch date).
C14_Scenario ==
  (call.op = "ensureSlots" /\ Len(call.ret) >= 4)
    => /\ \A k \in 1..4 : /\ call.ret[k].episodeNumber = <<"EP", 0, 0, k>>
                           /\ call.ret[k].isRollout
       /\ call.ret[1].recordDate = DayNum(2026, 1, 20)
       /\ call.ret[1].releaseDate = DayNum(2026, 3, 3)
       /\ call.ret[2].recordDate = DayNum(2026, 1, 27)
       /\ call.ret[2].releaseDate = DayNum(2026, 3, 3)
       /\ call.ret[3].recordDate = DayNum(2026, 2, 3)
       /\ call.ret[3].releaseDate = DayNum(2026, 3, 10)
       /\ call.ret[4].recordDate = DayNum(2026, 2, 10)
       /\ call.ret[4].recordDate + 7 <= DayNum(2026, 3, 3)

\* the slots as the Worker's KV store holds them
remoteSlots == kvGet(remote, "showSlots", <<>>)

\* the public feed lists the slot
InFeed(slot) ==
  \E e \in 1..Len(allEpisodes(remote, now)) :
    allEpisodes(remote, now)[e].episodeNumber = slot.episodeNumber

\* the slot has an assigned idea with a title
HasTitledIdea(slot) ==
  slotTitle(slot, kvGet(remote, "assignments", <<>>),
            kvGet(remote, "ideas", <<>>)) # <<>>

\* C15: the public episodes feed includes a slot if and only if its
\* effective release date (releaseDateOverride when set, otherwise
\* releaseDate) is on or before today at UTC-8 and it has an assigned idea
\* with a title.
C15_FeedEffectiveDate ==
  \A k \in 1..Len(remoteSlots) :
    InFeed(remoteSlots[k])
      <=> /\ getEffectiveReleaseDate(remoteSlots[k]) <= todayPST(now)
          /\ HasTitledIdea(remoteSlots[k])

\* the slot has an override that is a date
Overridden(slot) ==
  "releaseDateOverride" \in DOMAIN slot /\ slot.releaseDateOverride # EMPTY

\* C16: in one browser process a setReleaseDate and an ensureSlots
\* extension issued in either order while a save of showSlots is in flight
\* do not clobber each other.  Locally, ensureSlots keeps every stored
\* slot with its override and setReleaseDate keeps every slot and stores
\* the override; for the remote store, the value waiting to be sent is
\* always the local collection, and when the last PUT settles it either
\* failed or left the local collection in the remote store.
C16_NoClobber ==
  /\ []("showSlots" \in DOMAIN syncing
          => /\ syncing["showSlots"].value = stored
             /\ "showSlots" \in DOMAIN inflight
             /\ ~syncing["showSlots"].dirty
                  => JSONparse(inflight["showSlots"][1]) = stored)
  /\ [][/\ call'.op = "ensureSlots" => IsPrefix(stored, stored')
        /\ (call'.op = "setReleaseDate" /\ call'.ret # <<>>)
             => /\ Len(stored') = Len(stored)
                /\ \A k \in 1..Len(stored') :
                     stored'[k].id = call'.id
                       => stored'[k].releaseDateOverride = call'.date
        /\ ("showSlots" \in DOMAIN inflight
              /\ "showSlots" \notin DOMAIN inflight')
             => remote' = remote \/ remoteSlots' = stored']_vars

C16_Witness ==
  /\ "showSlots" \in DOMAIN inflight
  /\ "showSlots" \in DOMAIN syncing
  /\ syncing["showSlots"].dirty
  /\ LET sent == JSONparse(inflight["showSlots"][1])
         waiting == syncing["showSlots"].value
     IN  /\ Len(sent) > 0
         /\ Len(waiting) > Len(sent)
         /\ \A k \in 1..Len(sent) : ~Overridden(sent[k])
         /\ \E k \in 1..Len(sent) : Overridden(waiting[k])

\* C17: if the save of the slot collection failed after ensureSlots()
\* generated new slots (no PUT is in flight and the remote collection is
\* shorter than the local one), the next ensureSlots() call saves again:
\* it sends the whole local collection, so that the remote collection
\* reaches the horizon once a save succeeds.
C17_ResaveAfterFailedSave ==
  [][(/\ call'.op = "ensureSlots"
      /\ "showSlots" \notin DOMAIN inflight
      /\ Len(remoteSlots) < Len(stored))
       => /\ "showSlots" \in DOMAIN inflight'
          /\ JSONparse(inflight'["showSlots"][1]) = stored']_vars

\* the step settles the PUT of showSlots that is in flight, and the body
\* did not reach the remote store
FailedPut ==
  /\ "showSlots" \in DOMAIN inflight
  /\ syncing' # syncing
  /\ cache' = cache
  /\ remote' = remote
  /\ \/ "showSlots" \notin DOMAIN remote
     \/ JSONparse(remote["showSlots"]) # JSONparse(inflight["showSlots"][1])

\* C18: a failed write of the slot collection is surfaced as a failure to
\* the caller of the engine operation that triggered it: when the PUT
\* carrying the collection that the last engine call saved fails, that
\* save has not reported success.
C18_FailureSurfaced ==
  [][(/\ call.saved # <<>>
      /\ "showSlots" \in DOMAIN inflight
      /\ JSONparse(inflight["showSlots"][1]) = call.saved[1]
      /\ FailedPut)
       => ~saveShowSlotsReturns(call.saved[1])]_vars

\* C19: immediately after Storage.set(key, v), here saveShowSlots(v),
\* Storage.get(key) returns v with all fields and order preserved, and it
\* keeps returning v while the PUT is pending and after it has succeeded
\* or failed: what a read returns changes only by a save.
C19_ReadYourWrite ==
  [][/\ call'.saved # <<>> => stored' = call'.saved[1]
     /\ call'.saved = <<>> => stored' = stored]_vars

C19_Witness ==
  /\ "showSlots" \notin DOMAIN syncing
  /\ Len(remoteSlots) < Len(stored)
  /\ \E k \in 1..Len(remoteSlots) : stored[k] # remoteSlots[k]
  /\ \E k \in 1..Len(stored) : Overridden(stored[k])

\* C20: getSlotsByReleaseDate(d) returns exactly the stored slots whose
\* computed releaseDate equals d, in stored order (both slots when two
\* banked episodes share d), whatever their releaseDateOverride.
C20_ByReleaseDate ==
  \A d \in QueryDates :
    LET r == getSlotsByReleaseDate(d)
        I == {i \in 1..Len(stored) : stored[i].releaseDate = d}
    IN  /\ Len(r) = Cardinality(I)
        /\ \A k \in 1..Len(r) :
             r[k] = stored[CHOOSE i \in I : Cardinality({j \in I : j <= i}) = k]

C20_Witness ==
  \E d \in QueryDates :
    /\ Len(getSlotsByReleaseDate(d)) = 2
    /\ getSlotsByReleaseDate(d)[1].isRollout
    /\ getSlotsByReleaseDate(d)[1].episodeNum < getSlotsByReleaseDate(d)[2].episodeNum
    /\ \E k \in 1..Len(stored) :
         /\ Overridden(stored[k])
         /\ stored[k].releaseDateOverride = d
         /\ stored[k].releaseDate # d

QueryOps == {"getSlotByRecordDate", "getSlotsByReleaseDate", "getSlotById"}

\* the stored slot matches the query that the call made
Matches(slot, c) ==
  CASE c.op = "getSlotByRecordDate" -> slot.recordDate = c.date
    [] c.op = "getSlotsByReleaseDate" -> slot.releaseDate = c.date
    [] c.op = "getSlotById" -> slot.id = c.id

\* C21: getSlotByRecordDate, getSlotsByReleaseDate and getSlotById never
\* modify the stored collection or trigger a save, return only slots that
\* are in the stored collection (and match), and return null or an empty
\* list when nothing matches; at most one stored slot matches any given
\* record date or id.
C21_QueriesReadOnly ==
  /\ [](\A i, j \in 1..Len(stored) :
          (stored[i].recordDate = stored[j].recordDate
             \/ stored[i].id = stored[j].id) => i = j)
  /\ [][call'.op \in QueryOps
         => /\ storeVars' = storeVars
            /\ call'.saved = <<>>
            /\ \A k \in 1..Len(call'.ret) :
                 /\ \E i \in 1..Len(stored) : stored[i] = call'.ret[k]
                 /\ Matches(call'.ret[k], call')
            /\ (\A i \in 1..Len(stored) : ~Matches(stored[i], call'))
                 => call'.ret = <<>>]_vars

C21_Witness ==
  /\ call.op = "getSlotById"
  /\ call.ret = <<>>
  /\ Len(stored) > 0
  /\ \E i \in 1..Len(stored) : Overridden(stored[i])

\* C22: after any sequence of assignIdeaToSlot and unassignSlot calls the
\* stored assignments are a partial bijection: no idea is assigned to two
\* slots (a slot holds at most one idea since the mapping is keyed by slot)
C22_PartialBijection ==
  \A s1, s2 \in DOMAIN getAssignments :
    getAssignments[s1] = getAssignments[s2] => s1 = s2

\* an idea that held a slot has been assigned to another one, while a
\* second idea is assigned too
C22_Witness ==
  /\ call.op = "assignIdeaToSlot"
  /\ call.from # {}
  /\ call.id \notin call.from
  /\ Cardinality(DOMAIN getAssignments) = 2
  /\ getAssignments[call.id] = call.idea

\* the stored text of the slot collection is missing or malformed
Malformed ==
  \/ "showSlots" \notin DOMAIN localStorage
  \/ localStorage["showSlots"] = NullText
  \/ localStorage["showSlots"][1] = "truncated"

\* C23: when the stored slot collection is an absent key, null or
\* unparseable JSON, getShowSlots() yields the empty collection, and
\* ensureSlots() takes it for the first run: it generates, saves and returns
\* the run from the first record date to the horizon
C23_MalformedIsFirstRun ==
  /\ [](useLocalFallback /\ Malformed => getShowSlots = <<>>)
  /\ [][useLocalFallback /\ Malformed /\ call'.op = "ensureSlots"
        => LET run == _generateSlots(tz, FIRST_RECORD_DATE(tz),
                                     _getTargetDate(tz, now), 1)
           IN  /\ call'.ret = run
               /\ call'.saved = <<run>>
               /\ stored' = run
               /\ Len(run) > 0 /\ run[1].episodeNum = 1]_vars

\* ensureSlots() has generated the run over a collection cut short
C23_Witness ==
  /\ call.op = "ensureSlots"
  /\ call.found = <<TruncatedText(<<StaleSlot>>)>>
  /\ call.saved = <<stored>>
  /\ Len(stored) > 1
  /\ stored[1].recordDate = FIRST_RECORD_DAY

\* C24: for every value of the page and limit parameters of GET
\* /public/episodes the effective page is an integer >= 1 (1 when absent),
\* the effective limit is an integer in 1..50 (10 when absent), and the
\* response holds at most limit episodes
C24_PageAndLimit ==
  call.op = "GET /public/episodes" =>
    LET response == call.ret[1]
        page == response.pagination.page
        limit == response.pagination.limit
    IN  /\ page # NaN /\ page[1] >= 1
        /\ call.page = <<>> => page = Num(1)
        /\ limit # NaN /\ limit[1] \in 1..50
        /\ call.limit = <<>> => limit = Num(10)
        /\ Len(response.episodes) <= limit[1]

\* a request that the Worker serves without the X-Auth header: a preflight,
\* the health check, or a GET under /public/
PublicRequest(request) ==
  \/ request.method = "OPTIONS"
  \/ request.path = <<"health">>
  \/ request.method = "GET" /\ request.path[1] = "public"

HasPassword(request) ==
  /\ "X-Auth" \in DOMAIN request.headers
  /\ request.headers["X-Auth"] = ADMIN_PASSWORD

\* C25: every request other than a preflight, /health and GET /public/*
\* whose X-Auth header is not ADMIN_PASSWORD is answered 401 and reads and
\* writes no KV key; no request without the password changes the stored
\* data
C25_AuthGate ==
  /\ [](call.op = "fetch" /\ ~HasPassword(call.request)
           /\ ~PublicRequest(call.request)
         => /\ call.ret[1].status = 401
            /\ call.reads = {} /\ call.writes = {})
  /\ [][call'.op = "fetch" /\ ~HasPassword(call'.request)
          => remote' = remote]_vars

\* PUT /data/showSlots with a wrong password has been refused after the
\* same request with the right password had emptied the collection
C25_Witness ==
  /\ call.op = "fetch"
  /\ call.request.method = "PUT"
  /\ call.request.path = <<"data", "showSlots">>
  /\ call.request.headers = [x \in {"X-Auth"} |-> "guess"]
  /\ call.ret[1].status = 401
  /\ remote["showSlots"] = JSONstringify(<<>>)

\* a config value that holds an API key
HasApiKey(config) ==
  \/ "claudeApiKey" \in DOMAIN config /\ config.claudeApiKey # ""
  \/ "openaiApiKey" \in DOMAIN config /\ config.openaiApiKey # ""

\* C26: no sequence of saveConfig, importAll and migrateFromLocalStorage
\* calls sends a config value holding an API key to the remote data API:
\* neither a PUT /data/config in flight, nor the body of PUT /import, nor
\* the remote store holds one
C26_KeysStayLocal ==
  /\ "config" \in DOMAIN inflight => ~HasApiKey(JSONparse(inflight["config"][1]))
  /\ call.op = "migrateFromLocalStorage" /\ "config" \in DOMAIN call.saved[1]
       => ~HasApiKey(call.saved[1]["config"])
  /\ "config" \in DOMAIN remote => ~HasApiKey(JSONparse(remote["config"]))

\* local development: the hash placeholder was not replaced and there is
\* no session
LocalDevelopment ==
  /\ browserPage.expectedHash = PASSWORD_HASH_PLACEHOLDER
  /\ browserPage.session = <<>>

\* C27: in local development a page that starts to load skips the gate,
\* shows the protected content and initialises the storage, so that
\* onStorageReady runs
C27_LocalDevelopmentLoads ==
  [](LocalDevelopment /\ browserPage.pc = "load"
       => <>(/\ browserPage.gate = "none"
             /\ browserPage.content = "block"
             /\ browserPage.onStorageReadyRan))

\* the step settles the PUT in flight for the key
Settles(key) ==
  /\ call'.op = "none"
  /\ key \in DOMAIN inflight
  /\ key \in DOMAIN syncing
  /\ key \notin DOMAIN syncing' \/ syncing'[key] # syncing[key]

\* C28: for each key at most one PUT is in flight; a set(key, value) made
\* while a PUT for the key is pending sends nothing and records the value
\* as the one to send; when the pending PUT settles, exactly one follow-up
\* PUT is sent if a value was recorded, carrying the value set last, and
\* none otherwise
C28_OnePutPerKey ==
  /\ [](\A key \in DOMAIN inflight : Len(inflight[key]) = 1)
  /\ [][\A key \in SyncKeys :
          /\ (call'.op = "set" /\ call'.id = <<key>> /\ key \in DOMAIN inflight)
               => /\ inflight' = inflight
                  /\ syncing'[key] = [dirty |-> TRUE,
                                      value |-> call'.saved[1]]
          /\ (call'.op = "set" /\ call'.id = <<key>> /\ key \notin DOMAIN inflight)
               => inflight' = sendPut(inflight, key,
                                      JSONstringify(call'.saved[1]))
          /\ (Settles(key) /\ syncing[key].dirty)
               => /\ inflight'[key] = <<JSONstringify(cache[key])>>
                  /\ ~syncing'[key].dirty
          /\ (Settles(key) /\ ~syncing[key].dirty)
               => key \notin DOMAIN inflight']_vars

\* a follow-up PUT is in flight that carries the last of the values set
\* while the first PUT was pending, and not the value the first PUT carried
C28_Witness ==
  /\ call.op = "none"
  /\ "ideas" \in DOMAIN inflight
  /\ "ideas" \in DOMAIN remote
  /\ ~syncing["ideas"].dirty
  /\ inflight["ideas"] = <<JSONstringify(cache["ideas"])>>
  /\ remote["ideas"] # inflight["ideas"][1]
  /\ "jokes" \in DOMAIN inflight

\* no PUT is in flight and the remote store holds what the cache holds
InSync ==
  /\ inflight = <<>>
  /\ \A key \in SyncKeys :
       IF key \in DOMAIN remote THEN JSONparse(remote[key]) = cache[key]
                                ELSE cache[key] = <<>>

\* C29: if every PUT settles with success and the caller eventually stops
\* calling set, then eventually no PUT is in flight and the remote value of
\* each key equals the value in the local cache, for good
C29_EventuallyInSync ==
  <>[][call'.op # "set"]_vars => <>[]InSync

\* both keys have reached the remote store with the values set last
C29_Witness ==
  /\ call.op = "none"
  /\ InSync
  /\ Len(cache["ideas"]) = 2
  /\ Len(cache["jokes"]) = 1
  /\ SyncKeys \subseteq DOMAIN remote

\* the collection without the overrides set on its slots
GeneratedFields(slots) == [i \in 1..Len(slots) |-> Generated(slots[i])]

\* C30: the collection that ensureSlots() leaves after extending a stored
\* collection is, field for field, the collection generated at once from
\* the empty store to the same horizon, and the first appended slot's
\* record date is the last stored record date plus 7 days
C30_ExtensionRefinesGeneration ==
  [][(call'.op = "ensureSlots" /\ Len(stored) > 0
        /\ Len(stored') > Len(stored))
       => /\ GeneratedFields(stored')
               = _generateSlots(tz, FIRST_RECORD_DATE(tz),
                                _getTargetDate(tz, now), 1)
          /\ stored'[Len(stored) + 1].recordDate
               = stored[Len(stored)].recordDate + 7]_vars

\* C31: in every generated collection the computed release date does not
\* decrease with the episode number: no slot is released before a slot
\* with a smaller episode number
C31_ReleaseMonotone ==
  \A i, j \in 1..Len(stored) :
    stored[i].episodeNum < stored[j].episodeNum
      => stored[i].releaseDate <= stored[j].releaseDate

\* the remote collection holds the override that a client's cache holds
\* for each slot, and is at least as long as the client's collection
HoldsWritesOf(slots) ==
  /\ Len(remoteSlots) >= Len(slots)
  /\ \A k \in 1..Len(slots) :
       Overridden(slots[k])
         => /\ k <= Len(remoteSlots)
            /\ Overridden(remoteSlots[k])
            /\ remoteSlots[k].releaseDateOverride
                 = slots[k].releaseDateOverride

\* C32: two clients that loaded the data with Storage.init and then write
\* the slot collection lose no update: once no PUT of either client is in
\* flight, the remote collection holds the overrides and the extensions
\* that both clients wrote
C32_NoLostUpdate ==
  (inflight = <<>> /\ peer.inflight = <<>>)
    => /\ HoldsWritesOf(cache["showSlots"])
       /\ HoldsWritesOf(peer.cache["showSlots"])

\* C33: after any sequence of assignIdeaToSlot and unassignSlot calls over
\* stored ideas, an idea has the status scheduled if and only if some slot
\* is assigned to it
C33_ScheduledIffAssigned ==
  \A i \in 1..Len(getIdeas) :
    getIdeas[i].status = "scheduled"
      <=> \E sid \in DOMAIN getAssignments :
            getAssignments[sid] = getIdeas[i].id

\* C34: the migration offered by Auth._initStorage never overwrites remote
\* data: migrateFromLocalStorage is invoked only when every key it imports
\* is absent or empty in the remote store
C34_MigrationKeepsRemote ==
  [][(call'.op = "Auth._initStorage" /\ call'.saved # <<>>)
       => \A key \in DOMAIN call'.saved[1] :
            key \in DOMAIN remote => JSONparse(remote[key]) = <<>>]_vars

\* the episodes of the pages 1 to n of the feed, in page order
RECURSIVE pagesUpTo(_, _, _, _)
pagesUpTo(kv, t, limitParam, n) ==
  IF n = 0 THEN <<>>
  ELSE pagesUpTo(kv, t, limitParam, n - 1)
         \o publicEpisodes(kv, t, <<"int", n>>, limitParam).episodes

\* how many pages past totalPages are looked at
PagesBeyond == 2

\* C35: for the limit of a request to GET /public/episodes, the pages 1 to
\* totalPages taken in order are the released episodes newest first, each
\* once; hasMore is true on a page exactly when a later page holds an
\* episode; and every page after totalPages is empty
C35_PagesPartition ==
  call.op = "GET /public/episodes" =>
    LET all == allEpisodes(remote, now)
        pageOf(p) == publicEpisodes(remote, now, <<"int", p>>, call.limit)
        totalPages == pageOf(1).pagination.totalPages
    IN  /\ totalPages # NaN
        /\ \A i, j \in 1..Len(all) :
             i < j => all[i].releaseDate >= all[j].releaseDate
        /\ pagesUpTo(remote, now, call.limit, totalPages[1]) = all
        /\ \A p \in 1..(totalPages[1] + PagesBeyond) :
             pageOf(p).pagination.hasMore
               <=> \E q \in (p + 1)..(totalPages[1] + PagesBeyond) :
                     pageOf(q).episodes # <<>>
        /\ \A p \in (totalPages[1] + 1)..(totalPages[1] + PagesBeyond) :
             pageOf(p).episodes = <<>>

\* C36: Auth.init skips the gate on a stored session only if the session is
\* at most 8 hours old and its hash is the expected hash; a session older
\* than 8 hours is removed when Auth.init checks it and the gate is shown;
\* and a wrong password creates no session
C36_SessionGate ==
  [][/\ (call'.op = "Auth.init" /\ browserPage.session # <<>>)
         => /\ browserPage'.pc = "initStorage"
                => /\ now - browserPage.session[1].ts <= tokenTTL
                   /\ browserPage.session[1].hash = browserPage.expectedHash
            /\ now - browserPage.session[1].ts > tokenTTL
                => /\ browserPage'.session = <<>>
                   /\ browserPage'.gate = "flex"
                   /\ browserPage'.pc = "gate"
     /\ (call'.op = "Auth._attempt"
          /\ sha256(call'.saved[1]) # browserPage.expectedHash)
         => browserPage'.session = browserPage.session]_vars

\* Auth.init has skipped the gate on a session that is exactly 8 hours old
C36_Witness ==
  /\ call.op = "Auth.init"
  /\ browserPage.pc = "initStorage"
  /\ browserPage.session # <<>>
  /\ now - browserPage.session[1].ts = tokenTTL

\* the keys that C37 lists
ListedKeys == {"config", "ideas", "jokes", "showSlots", "assignments"}

\* C37: a GET or PUT /data/<key> with the password and a key outside the
\* listed ones is answered 400 and changes no KV key; a PUT /import with
\* the password sets each listed key of the body to the body's value and
\* leaves every other key as it was
C37_KeysAndImport ==
  [][(call'.op = "fetch" /\ HasPassword(call'.request))
       => LET request == call'.request IN
          /\ (/\ request.method \in {"GET", "PUT"}
              /\ Len(request.path) = 2
              /\ request.path[1] = "data"
              /\ request.path[2] \notin ListedKeys)
               => /\ call'.ret[1].status = 400
                  /\ remote' = remote
          /\ (request.method = "PUT" /\ request.path = <<"import">>)
               => \A key \in DOMAIN remote \cup DOMAIN remote'
                               \cup DOMAIN request.body :
                    IF key \in ListedKeys \cap DOMAIN request.body
                      THEN /\ key \in DOMAIN remote'
                           /\ remote'[key] = JSONstringify(request.body[key])
                      ELSE /\ key \in DOMAIN remote' <=> key \in DOMAIN remote
                           /\ key \in DOMAIN remote
                                => remote'[key] = remote[key]]_vars

\* PUT /import with the password has emptied the ideas, kept the schedule
\* and stored no exportDate
C37_Witness ==
  /\ call.op = "fetch"
  /\ HasPassword(call.request)
  /\ call.request.method = "PUT"
  /\ call.request.path = <<"import">>
  /\ call.ret[1].status = 200
  /\ remote["ideas"] = JSONstringify(<<>>)
  /\ remote["showSlots"] # JSONstringify(<<>>)
  /\ "exportDate" \notin DOMAIN remote
====
